---- MODULE Spec2Model ----
(***************************************************************************)
(* A model of the multi-relational algebra engine of mra_data.py and       *)
(* mra_operators.py: the canonical keys RelationSchema and RelationTuple,  *)
(* the stores RelationSpace and SliceRelation, and the operators           *)
(* CreateRelationSpaceByCube, Represent, SliceTransform, SliceSelect,      *)
(* SliceProject, Flatten and Crawl.                                        *)
(*                                                                         *)
(* Python values are modelled as follows.                                  *)
(*   list / tuple   a sequence                                             *)
(*   dict           a sequence of <<key, value>> pairs with distinct keys, *)
(*                  in insertion order (Python dicts keep that order)      *)
(*   DataFrame      [kind, columns, rows]: the column names in order and   *)
(*                  the rows as tuples aligned with the columns            *)
(*   None           the record NoData                                      *)
(* An operator call is one step: it reads the current value `result`,      *)
(* makes it the call's `input`, and leaves the value the call returned in  *)
(* `result`, or NoData and the exception's name in `err` when it raised.   *)
(***************************************************************************)
EXTENDS Integers, Sequences, FiniteSets, TLC

VARIABLES
    call,     \* the last call made: [op |-> name, args |-> its arguments]
    input,    \* the value that call received, as it was when the call began
    input_after,  \* the same object as it is after the call
    result,   \* the value that call returned (NoData when it raised)
    err,      \* "none", or the name of the exception the call raised
    log,      \* the calls that call made: callbacks, stores, operators
    depth     \* number of calls made so far

vars == <<call, input, input_after, result, err, log, depth>>

(***************************************************************************)
(* Bounds of the model.                                                    *)
(***************************************************************************)
MaxRows == 2        \* rows of a base table
MaxAttrs == 2       \* length of an attribute list given to a constructor
MaxCalls == 3       \* calls made on one RelationSpace of the data model

NoData == [kind |-> "None"]
NoCall == [op |-> "none", args |-> <<>>]

(***************************************************************************)
(* Strings.  Python compares str values by code point; StrOrder lists the  *)
(* strings of the model in that order (upper case before lower case).      *)
(***************************************************************************)
StrOrder ==
    <<"Browser", "Chrome", "Clicks", "Cost", "Cpc", "Device", "Pixel", "Revenue",
      "Safari", "iPhone">>

Rank(s) == CHOOSE i \in 1..Len(StrOrder) : StrOrder[i] = s

StrLess(a, b) == Rank(a) < Rank(b)

Range(s) == {s[i] : i \in 1..Len(s)}

RECURSIVE SeqSum(_)
SeqSum(s) == IF s = <<>> THEN 0 ELSE Head(s) + SeqSum(Tail(s))

(***************************************************************************)
(* sorted(): a stable sort.  InsertSorted puts x after every element that  *)
(* is not greater than x.                                                  *)
(***************************************************************************)
RECURSIVE InsertSorted(_, _)
InsertSorted(x, s) ==
    IF s = <<>> THEN <<x>>
    ELSE IF StrLess(x, Head(s)) THEN <<x>> \o s
    ELSE <<Head(s)>> \o InsertSorted(x, Tail(s))

RECURSIVE sorted(_)
sorted(s) ==
    IF s = <<>> THEN <<>>
    ELSE InsertSorted(s[Len(s)], sorted(SubSeq(s, 1, Len(s) - 1)))

\* sorted() of (key, value) items whose keys are distinct: the key decides.
RECURSIVE InsertItem(_, _)
InsertItem(x, s) ==
    IF s = <<>> THEN <<x>>
    ELSE IF StrLess(x[1], Head(s)[1]) THEN <<x>> \o s
    ELSE <<Head(s)>> \o InsertItem(x, Tail(s))

RECURSIVE sorted_items(_)
sorted_items(s) ==
    IF s = <<>> THEN <<>>
    ELSE InsertItem(s[Len(s)], sorted_items(SubSeq(s, 1, Len(s) - 1)))

(***************************************************************************)
(* Python dict.                                                            *)
(***************************************************************************)
DictKeys(d) == [i \in 1..Len(d) |-> d[i][1]]

DictValues(d) == [i \in 1..Len(d) |-> d[i][2]]

DictHas(d, k) == \E i \in 1..Len(d) : d[i][1] = k

\* d.get(k): the value, or None.
DictGet(d, k) ==
    IF DictHas(d, k) THEN d[CHOOSE i \in 1..Len(d) : d[i][1] = k][2] ELSE NoData

\* d[k] = v: an existing key keeps its position, a new key goes last.
DictSet(d, k, v) ==
    IF DictHas(d, k)
    THEN [i \in 1..Len(d) |-> IF d[i][1] = k THEN <<k, v>> ELSE d[i]]
    ELSE Append(d, <<k, v>>)

\* dict(pairs)
RECURSIVE dict(_)
dict(pairs) ==
    IF pairs = <<>> THEN <<>>
    ELSE DictSet(dict(SubSeq(pairs, 1, Len(pairs) - 1)),
                 pairs[Len(pairs)][1], pairs[Len(pairs)][2])

(***************************************************************************)
(* mra_data.py                                                             *)
(***************************************************************************)
\* RelationSchema with the sort left out.
RelationSchema_unsorted(attributes) == attributes

\* RelationSchema(attributes): the frozen dataclass holds the one field
\* `attributes`, so a schema is modelled by that sorted tuple; equality and
\* hash of the dataclass are those of the tuple.
RelationSchema(attributes) == sorted(attributes)

\* create_relation_tuple(key_values)
create_relation_tuple(key_values) == sorted_items(key_values)

RelationSpace(dimensions) ==
    [kind |-> "RelationSpace", dimensions |-> dimensions, relations |-> <<>>]

\* add_relation that leaves a schema that is already stored as it is.
add_relation_keep_first(space, relation, dimensional_schema) ==
    IF DictHas(space.relations, dimensional_schema) THEN space
    ELSE [space EXCEPT !.relations = DictSet(@, dimensional_schema, relation)]

\* RelationSpace.add_relation: the space after the call.
add_relation(space, relation, dimensional_schema) ==
    [space EXCEPT !.relations = DictSet(@, dimensional_schema, relation)]

\* RelationSpace.get_relation
get_relation(space, dimensional_schema) ==
    DictGet(space.relations, dimensional_schema)

SliceRelation(dimensions) ==
    [kind |-> "SliceRelation", dimensions |-> dimensions, data |-> <<>>]

\* SliceRelation.add_slice_tuple: the slice relation after the call.
add_slice_tuple(sr, region, feature_schema, feature_data) ==
    LET features == IF DictHas(sr.data, region) THEN DictGet(sr.data, region) ELSE <<>>
    IN  [sr EXCEPT !.data = DictSet(@, region, DictSet(features, feature_schema, feature_data))]

(***************************************************************************)
(* pandas.DataFrame                                                        *)
(***************************************************************************)
DataFrame(columns, rows) ==
    [kind |-> "DataFrame", columns |-> columns, rows |-> rows]

ColIndex(df, c) == CHOOSE i \in 1..Len(df.columns) : df.columns[i] = c

HasColumn(df, c) == c \in Range(df.columns)

\* df[cols]: the projection on the listed columns, in the listed order.
ProjectRow(df, row, cols) == [j \in 1..Len(cols) |-> row[ColIndex(df, cols[j])]]

ProjectColumns(df, cols) ==
    DataFrame(cols, [i \in 1..Len(df.rows) |-> ProjectRow(df, df.rows[i], cols)])

\* Lexicographic order of two key tuples of string values.
RECURSIVE TupleLess(_, _)
TupleLess(a, b) ==
    IF a = <<>> \/ b = <<>> THEN Len(a) < Len(b)
    ELSE IF Head(a) = Head(b) THEN TupleLess(Tail(a), Tail(b))
    ELSE StrLess(Head(a), Head(b))

RECURSIVE InsertKey(_, _)
InsertKey(x, s) ==
    IF s = <<>> THEN <<x>>
    ELSE IF x = Head(s) THEN s
    ELSE IF TupleLess(x, Head(s)) THEN <<x>> \o s
    ELSE <<Head(s)>> \o InsertKey(x, Tail(s))

\* The distinct key tuples of df.groupby(cols), in sorted order (sort=True).
RECURSIVE SortedKeys(_, _, _)
SortedKeys(df, cols, n) ==
    IF n = 0 THEN <<>>
    ELSE InsertKey(ProjectRow(df, df.rows[n], cols), SortedKeys(df, cols, n - 1))

GroupKeys(df, cols) == SortedKeys(df, cols, Len(df.rows))

\* A group that holds every row of the table, whatever its key.
GroupFrame_every_row(df, cols, key) == df

\* The sub-table of one group: the rows with that key, in their order.
GroupFrame(df, cols, key) ==
    LET InGroup(row) == ProjectRow(df, row, cols) = key
    IN  DataFrame(df.columns, SelectSeq(df.rows, InGroup))

\* The 'sum' of each aggregated column over the rows of df.
AggRow(df, aggregations) ==
    [j \in 1..Len(aggregations) |->
        SeqSum([i \in 1..Len(df.rows) |-> df.rows[i][ColIndex(df, aggregations[j])]])]

\* data.agg(aggregations).to_frame().T
AggAll(df, aggregations) == DataFrame(aggregations, <<AggRow(df, aggregations)>>)

\* data.groupby(group_list).agg(aggregations).reset_index()
AggGroups(df, group_list, aggregations) ==
    LET keys == GroupKeys(df, group_list)
    IN  DataFrame(group_list \o aggregations,
                  [i \in 1..Len(keys) |->
                      keys[i] \o AggRow(GroupFrame(df, group_list, keys[i]), aggregations)])

\* left.merge(right, how='cross'): every left row with every right row; a
\* column name on both sides gets the suffixes _x and _y.
MergeCross(left, right) ==
    LET both == Range(left.columns) \cap Range(right.columns)
        lcols == [i \in 1..Len(left.columns) |->
                    IF left.columns[i] \in both THEN left.columns[i] \o "_x"
                    ELSE left.columns[i]]
        rcols == [i \in 1..Len(right.columns) |->
                    IF right.columns[i] \in both THEN right.columns[i] \o "_y"
                    ELSE right.columns[i]]
        nr == Len(right.rows)
    IN  DataFrame(lcols \o rcols,
                  [k \in 1..(Len(left.rows) * nr) |->
                      left.rows[((k - 1) \div nr) + 1] \o right.rows[((k - 1) % nr) + 1]])

\* itertools.combinations(s, r), as the list of its tuples in order.
RECURSIVE combinations(_, _)
combinations(s, r) ==
    IF r = 0 THEN << <<>> >>
    ELSE IF Len(s) < r THEN <<>>
    ELSE LET with == combinations(Tail(s), r - 1)
         IN  [i \in 1..Len(with) |-> <<Head(s)>> \o with[i]] \o combinations(Tail(s), r)

\* chain.from_iterable(combinations(keys, r) for r in range(len(keys) + 1))
RECURSIVE PowerSetUpTo(_, _)
PowerSetUpTo(keys, r) ==
    IF r < 0 THEN <<>> ELSE PowerSetUpTo(keys, r - 1) \o combinations(keys, r)

\* The power set taken from range(1, len(keys) + 1): no empty grouping set.
power_set_without_empty(keys) == Tail(PowerSetUpTo(keys, Len(keys)))

power_set(keys) == PowerSetUpTo(keys, Len(keys))

(***************************************************************************)
(* mra_operators.py.  An operator is a record [op |-> class name, ...] of  *)
(* its constructor's arguments; executing it gives an Outcome: the value   *)
(* returned, the exception raised ("none" if none) and the callbacks made. *)
(***************************************************************************)
Outcome(value, error, calls) == [value |-> value, err |-> error, log |-> calls]

Raise(error, calls) == Outcome(NoData, error, calls)

\* CreateRelationSpaceByCube._execute: the loop over the power set.
RECURSIVE CubeLoop(_, _, _, _)
CubeLoop(relation_space, data, groups, aggregations) ==
    IF groups = <<>> THEN relation_space
    ELSE LET group_list == Head(groups)
             agg_df == IF group_list = <<>> THEN AggAll(data, aggregations)
                       ELSE AggGroups(data, group_list, aggregations)
             dimensional_schema == RelationSchema(group_list)
         IN  CubeLoop(add_relation(relation_space, agg_df, dimensional_schema),
                      data, Tail(groups), aggregations)

CreateRelationSpaceByCube_execute(self, data) ==
    IF data.kind # "DataFrame" THEN Raise("TypeError", <<>>)
    ELSE Outcome(CubeLoop(RelationSpace(RelationSchema(self.grouping_keys)), data,
                          power_set(self.grouping_keys), self.aggregations),
                 "none", <<>>)

\* The empty region, create_relation_tuple({}).
empty_region_tuple == create_relation_tuple(<<>>)

\* zip(region_cols, region_values)
zip(a, b) == [i \in 1..Len(a) |-> <<a[i], b[i]>>]

\* Represent._execute, lines 142-149: one slice tuple per group of the source.
RECURSIVE RepresentGroups(_, _, _, _, _)
RepresentGroups(slice_relation, relation, keys, r_schema, f_schema) ==
    IF keys = <<>> THEN slice_relation
    ELSE LET region_values == Head(keys)
             region_dict == dict(zip(r_schema, region_values))
             region_tuple == create_relation_tuple(region_dict)
             group_df == GroupFrame(relation, r_schema, region_values)
             feature_data == ProjectColumns(group_df, f_schema)
         IN  RepresentGroups(
                 add_slice_tuple(slice_relation, region_tuple, f_schema, feature_data),
                 relation, Tail(keys), r_schema, f_schema)

\* The body of Represent's loops with no case for the empty region schema:
\* the pair contributes nothing.
RepresentPair_without_empty_region(slice_relation, data, r_schema, f_schema) ==
    LET target_attributes == r_schema \o f_schema
        IsDimension(attr) == attr \in Range(data.dimensions)
        target_dim_attributes == SelectSeq(target_attributes, IsDimension)
        target_dim_schema == RelationSchema(target_dim_attributes)
        relation_to_partition == get_relation(data, target_dim_schema)
    IN  IF relation_to_partition = NoData THEN slice_relation
        ELSE IF ~(\A col \in Range(r_schema \o f_schema) :
                        HasColumn(relation_to_partition, col))
        THEN slice_relation
        ELSE IF r_schema = <<>>
        THEN slice_relation
        ELSE RepresentGroups(slice_relation, relation_to_partition,
                             GroupKeys(relation_to_partition, r_schema),
                             r_schema, f_schema)

\* Represent._execute, lines 122-149: the body of the loops, for one
\* (r_schema, f_schema) pair.
RepresentPair(slice_relation, data, r_schema, f_schema) ==
    LET target_attributes == r_schema \o f_schema
        IsDimension(attr) == attr \in Range(data.dimensions)
        target_dim_attributes == SelectSeq(target_attributes, IsDimension)
        target_dim_schema == RelationSchema(target_dim_attributes)
        relation_to_partition == get_relation(data, target_dim_schema)
    IN  IF relation_to_partition = NoData THEN slice_relation
        ELSE IF ~(\A col \in Range(r_schema \o f_schema) :
                        HasColumn(relation_to_partition, col))
        THEN slice_relation
        ELSE IF r_schema = <<>>
        THEN add_slice_tuple(slice_relation, empty_region_tuple, f_schema,
                             ProjectColumns(relation_to_partition, f_schema))
        ELSE RepresentGroups(slice_relation, relation_to_partition,
                             GroupKeys(relation_to_partition, r_schema),
                             r_schema, f_schema)

\* The (r_schema, f_schema) pairs in the order of the nested loops.
SchemaPairs(region_schemas, feature_schemas) ==
    [k \in 1..(Len(region_schemas) * Len(feature_schemas)) |->
        <<region_schemas[((k - 1) \div Len(feature_schemas)) + 1],
          feature_schemas[((k - 1) % Len(feature_schemas)) + 1]>>]

RECURSIVE RepresentLoop(_, _, _)
RepresentLoop(slice_relation, data, pairs) ==
    IF pairs = <<>> THEN slice_relation
    ELSE RepresentLoop(RepresentPair(slice_relation, data, Head(pairs)[1], Head(pairs)[2]),
                       data, Tail(pairs))

Represent_execute(self, data) ==
    IF data.kind # "RelationSpace" THEN Raise("TypeError", <<>>)
    ELSE Outcome(RepresentLoop(SliceRelation(data.dimensions), data,
                               SchemaPairs(self.region_schemas, self.feature_schemas)),
                 "none", <<>>)

\* A python set (or any value) that may also be None.
Some(elems) == [kind |-> "Set", elems |-> elems]

\* components[:i] + components[i+1:], for the 1-based index i.
RemoveAt(components, i) ==
    SubSeq(components, 1, i - 1) \o SubSeq(components, i + 1, Len(components))

\* SliceTransform._is_descendant, lines 271-284: the loop from index i on.
RECURSIVE DescendantFrom(_, _, _, _)
DescendantFrom(components, i, parent_regions, parent_schemas) ==
    IF i > Len(components) THEN TRUE
    ELSE LET projection_components == RemoveAt(components, i)
             proj_schema == RelationSchema(DictKeys(projection_components))
             parent_candidate == create_relation_tuple(dict(projection_components))
         IN  IF proj_schema \notin parent_schemas
             THEN DescendantFrom(components, i + 1, parent_regions, parent_schemas)
             ELSE IF parent_candidate \notin parent_regions THEN FALSE
             ELSE DescendantFrom(components, i + 1, parent_regions, parent_schemas)

\* _is_descendant with `return True` inside the loop: only the first
\* projection is checked.
is_descendant_first_only(region_to_check, parent_regions, parent_schemas) ==
    IF Len(region_to_check) = 0 THEN TRUE
    ELSE LET projection_components == RemoveAt(region_to_check, 1)
         IN  \/ RelationSchema(DictKeys(projection_components)) \notin parent_schemas
             \/ create_relation_tuple(dict(projection_components)) \in parent_regions

is_descendant(region_to_check, parent_regions, parent_schemas) ==
    IF Len(region_to_check) = 0 THEN TRUE
    ELSE DescendantFrom(region_to_check, 1, parent_regions, parent_schemas)

\* numerator / denominator followed by fillna(0): 0 / 0 is NaN in pandas and
\* becomes 0, x / 0 is infinite; the tables of the model hold values whose
\* quotient is a whole number.
Ratio(numerator, denominator) ==
    IF denominator # 0 THEN numerator \div denominator
    ELSE IF numerator = 0 THEN 0 ELSE "inf"

\* RatioTransformation.__call__: a copy of the table with the column
\* output_col set to the ratio (a new column goes last).
RatioTransformation_call(self, data) ==
    LET Value(row) == Ratio(row[ColIndex(data, self.numerator_col)],
                            row[ColIndex(data, self.denominator_col)])
    IN  IF HasColumn(data, self.output_col)
        THEN DataFrame(data.columns,
                       [i \in 1..Len(data.rows) |->
                           [data.rows[i] EXCEPT ![ColIndex(data, self.output_col)] =
                                                    Value(data.rows[i])]])
        ELSE DataFrame(Append(data.columns, self.output_col),
                       [i \in 1..Len(data.rows) |-> Append(data.rows[i], Value(data.rows[i]))])

\* transformation(df): CopyTransformation of mra_operators_test.py (and the
\* transformation that requires reference data) returns a copy of the table,
\* RatioTransformation a copy with the ratio column, and the in-place
\* transformation the table it was given, with the ratio column.
TransformationCall(transformation, df) ==
    IF transformation.name \in {"RatioTransformation", "InPlaceTransformation"}
    THEN RatioTransformation_call(transformation, df)
    ELSE df

\* The table a transformation was called on, as the call leaves it: the
\* in-place transformation has written its column into it, the others work
\* on a copy of their own.
ArgumentAfter(transformation, df) ==
    IF transformation.name = "InPlaceTransformation"
    THEN TransformationCall(transformation, df)
    ELSE df

\* `transformation(feature_df)`, without the copy: the input's table is the
\* argument.
FeatureAfterCall_without_copy(transformation, feature_df) ==
    ArgumentAfter(transformation, feature_df)

\* SliceTransform._execute, line 323, `transformation(feature_df.copy())`:
\* the input's table feature_df after the call.  The argument is a copy, a
\* different object, so the table is as it was.
FeatureAfterCall(transformation, feature_df) == feature_df

\* The map in which the first transformation of a schema stays.
RECURSIVE TransformMap_first_wins(_)
TransformMap_first_wins(ts) ==
    IF ts = <<>> THEN <<>>
    ELSE DictSet(TransformMap_first_wins(Tail(ts)), Head(ts).feature_schema, Head(ts))

\* {t.feature_schema: t for t in slice_transformations}
RECURSIVE TransformMap(_)
TransformMap(ts) ==
    IF ts = <<>> THEN <<>>
    ELSE DictSet(TransformMap(SubSeq(ts, 1, Len(ts) - 1)),
                 ts[Len(ts)].feature_schema, ts[Len(ts)])

\* The reference-data setter without its check: None is accepted.
ReferenceDataMissing_unchecked(slice_transformations, reference_features) == FALSE

\* SliceTransform._execute, lines 302-306: binds the reference data of each
\* transformation that requires it; the setter raises ValueError on None.
\* TRUE iff some setter raises.
ReferenceDataMissing(slice_transformations, reference_features) ==
    \E i \in 1..Len(slice_transformations) :
        /\ slice_transformations[i].require_reference_data
        /\ DictGet(reference_features, slice_transformations[i].feature_schema) = NoData

\* SliceTransform._execute, lines 320-328: the first loop over a region's
\* features.  acc = [sr |-> new_slice_relation, log |-> calls made,
\* processed |-> processed_schemas].
RECURSIVE TransformFeatures(_, _, _, _)
TransformFeatures(acc, region, features, transform_map) ==
    IF features = <<>> THEN acc
    ELSE LET feature_schema == Head(features)[1]
             feature_df == Head(features)[2]
         IN  IF DictHas(transform_map, feature_schema)
             THEN LET transformation == DictGet(transform_map, feature_schema)
                      transformed_df == TransformationCall(transformation, feature_df)
                      output_schema == RelationSchema(transformed_df.columns)
                  IN  TransformFeatures(
                          [sr |-> add_slice_tuple(acc.sr, region, output_schema, transformed_df),
                           log |-> Append(acc.log, <<"transformation", transformation.name,
                                                     region, feature_schema>>),
                           processed |-> acc.processed \cup {feature_schema}],
                          region, Tail(features), transform_map)
             ELSE TransformFeatures(acc, region, Tail(features), transform_map)

\* The second loop without the test on processed_schemas: every input
\* feature is copied to the output.
RECURSIVE CopyFeatures_all(_, _, _, _)
CopyFeatures_all(sr, region, features, processed_schemas) ==
    IF features = <<>> THEN sr
    ELSE CopyFeatures_all(add_slice_tuple(sr, region, Head(features)[1], Head(features)[2]),
                          region, Tail(features), processed_schemas)

\* SliceTransform._execute, lines 330-333: the second loop, which copies the
\* features no transformation processed.
RECURSIVE CopyFeatures(_, _, _, _)
CopyFeatures(sr, region, features, processed_schemas) ==
    IF features = <<>> THEN sr
    ELSE IF Head(features)[1] \notin processed_schemas
    THEN CopyFeatures(add_slice_tuple(sr, region, Head(features)[1], Head(features)[2]),
                      region, Tail(features), processed_schemas)
    ELSE CopyFeatures(sr, region, Tail(features), processed_schemas)

\* The loop over the regions that carries the empty region's feature tables
\* into the output, as the first definition of the class does (lines
\* 230-233).
RECURSIVE TransformRegions_keep_empty(_, _, _, _)
TransformRegions_keep_empty(acc, self, items, transform_map) ==
    IF items = <<>> THEN acc
    ELSE LET region == Head(items)[1]
             features == Head(items)[2]
         IN  IF region = empty_region_tuple
             THEN TransformRegions_keep_empty(
                      [sr |-> CopyFeatures(acc.sr, region, features, {}), log |-> acc.log],
                      self, Tail(items), transform_map)
             ELSE IF /\ self.drill_down_regions # NoData
                     /\ self.parent_region_schemas # NoData
                     /\ ~is_descendant(region, self.drill_down_regions.elems,
                                       self.parent_region_schemas.elems)
             THEN TransformRegions_keep_empty(acc, self, Tail(items), transform_map)
             ELSE LET first == TransformFeatures(
                                   [sr |-> acc.sr, log |-> acc.log, processed |-> {}],
                                   region, features, transform_map)
                  IN  TransformRegions_keep_empty(
                          [sr |-> CopyFeatures(first.sr, region, features, first.processed),
                           log |-> first.log],
                          self, Tail(items), transform_map)

\* The loop over the regions with the descendant check run as soon as one
\* of the two frontier parameters is given, a missing one counting as empty.
RECURSIVE TransformRegions_either(_, _, _, _)
TransformRegions_either(acc, self, items, transform_map) ==
    IF items = <<>> THEN acc
    ELSE LET region == Head(items)[1]
             features == Head(items)[2]
             regions == IF self.drill_down_regions = NoData THEN {}
                        ELSE self.drill_down_regions.elems
             schemas == IF self.parent_region_schemas = NoData THEN {}
                        ELSE self.parent_region_schemas.elems
         IN  IF region = empty_region_tuple
             THEN TransformRegions_either(acc, self, Tail(items), transform_map)
             ELSE IF /\ (self.drill_down_regions # NoData \/ self.parent_region_schemas # NoData)
                     /\ ~is_descendant(region, regions, schemas)
             THEN TransformRegions_either(acc, self, Tail(items), transform_map)
             ELSE LET first == TransformFeatures(
                                   [sr |-> acc.sr, log |-> acc.log, processed |-> {}],
                                   region, features, transform_map)
                  IN  TransformRegions_either(
                          [sr |-> CopyFeatures(first.sr, region, features, first.processed),
                           log |-> first.log],
                          self, Tail(items), transform_map)

\* SliceTransform._execute, lines 308-333: the loop over the regions.
\* acc = [sr |-> new_slice_relation, log |-> calls made].
RECURSIVE TransformRegions(_, _, _, _)
TransformRegions(acc, self, items, transform_map) ==
    IF items = <<>> THEN acc
    ELSE LET region == Head(items)[1]
             features == Head(items)[2]
         IN  IF region = empty_region_tuple
             THEN TransformRegions(acc, self, Tail(items), transform_map)
             ELSE IF /\ self.drill_down_regions # NoData
                     /\ self.parent_region_schemas # NoData
                     /\ ~is_descendant(region, self.drill_down_regions.elems,
                                       self.parent_region_schemas.elems)
             THEN TransformRegions(acc, self, Tail(items), transform_map)
             ELSE LET first == TransformFeatures(
                                   [sr |-> acc.sr, log |-> acc.log, processed |-> {}],
                                   region, features, transform_map)
                  IN  TransformRegions(
                          [sr |-> CopyFeatures(first.sr, region, features, first.processed),
                           log |-> first.log],
                          self, Tail(items), transform_map)

\* SliceTransform._execute (the second definition of the class, which is
\* the one in effect).
SliceTransform_execute(self, data) ==
    IF data.kind # "SliceRelation" THEN Raise("TypeError", <<>>)
    ELSE LET transform_map == TransformMap(self.slice_transformations)
             reference_features ==
                 IF DictHas(data.data, empty_region_tuple)
                 THEN DictGet(data.data, empty_region_tuple) ELSE <<>>
         IN  IF ReferenceDataMissing(self.slice_transformations, reference_features)
             THEN Raise("ValueError", <<>>)
             ELSE LET done == TransformRegions(
                                  [sr |-> SliceRelation(self.dimensions), log |-> <<>>],
                                  self, data.data, transform_map)
                  IN  Outcome(done.sr, "none", done.log)

\* The input of SliceTransform._execute as the call leaves it.  The code
\* assigns to nothing of `data`; the tables of `data` are reached by the
\* transformations, at line 323, and by `feature_df.copy()` at line 333.
SliceTransform_input_after(self, data) ==
    IF data.kind # "SliceRelation" THEN data
    ELSE LET transform_map == TransformMap(self.slice_transformations)
             reference_features ==
                 IF DictHas(data.data, empty_region_tuple)
                 THEN DictGet(data.data, empty_region_tuple) ELSE <<>>
             Skipped(region) ==
                 \/ region = empty_region_tuple
                 \/ /\ self.drill_down_regions # NoData
                    /\ self.parent_region_schemas # NoData
                    /\ ~is_descendant(region, self.drill_down_regions.elems,
                                      self.parent_region_schemas.elems)
             After(feature) ==
                 IF DictHas(transform_map, feature[1])
                 THEN <<feature[1],
                        FeatureAfterCall(DictGet(transform_map, feature[1]), feature[2])>>
                 ELSE feature
         IN  IF ReferenceDataMissing(self.slice_transformations, reference_features)
             THEN data
             ELSE [data EXCEPT !.data =
                      [i \in 1..Len(data.data) |->
                          IF Skipped(data.data[i][1]) THEN data.data[i]
                          ELSE <<data.data[i][1],
                                 [j \in 1..Len(data.data[i][2]) |->
                                     After(data.data[i][2][j])]>>]]

\* predicate_func(region, features), for the predicates of the model:
\* `lambda r, f: True` (mra_operators_test.py), its negation, a test of the
\* region's key (as is_iphone in slice_select_example.py) and a test of the
\* region's features (as feature_df is not None there).
predicate_func(predicate, region, features) ==
    CASE predicate = "always_true" -> TRUE
      [] predicate = "always_false" -> FALSE
      [] predicate = "is_pixel" -> <<"Device", "Pixel">> \in Range(region)
      [] predicate = "has_cost" -> DictHas(features, <<"Cost">>)

\* The loop that leaves out the last feature table of the region.
RECURSIVE AddFeatures_but_last(_, _, _)
AddFeatures_but_last(sr, region, features) ==
    IF Len(features) <= 1 THEN sr
    ELSE AddFeatures_but_last(add_slice_tuple(sr, region, Head(features)[1], Head(features)[2]),
                              region, Tail(features))

\* The loop `for feature_schema, feature_df in features.items():
\* new_slice_relation.add_slice_tuple(region, feature_schema, feature_df)`.
RECURSIVE AddFeatures(_, _, _)
AddFeatures(sr, region, features) ==
    IF features = <<>> THEN sr
    ELSE AddFeatures(add_slice_tuple(sr, region, Head(features)[1], Head(features)[2]),
                     region, Tail(features))

\* SliceSelect._execute, lines 354-359.  acc = [sr, log].
RECURSIVE SelectRegions(_, _, _)
SelectRegions(acc, self, items) ==
    IF items = <<>> THEN acc
    ELSE LET region == Head(items)[1]
             features == Head(items)[2]
             calls == Append(acc.log, <<"predicate", self.predicate_func, region>>)
         IN  IF predicate_func(self.predicate_func, region, features)
             THEN SelectRegions([sr |-> AddFeatures(acc.sr, region, features), log |-> calls],
                                self, Tail(items))
             ELSE SelectRegions([sr |-> acc.sr, log |-> calls], self, Tail(items))

\* SliceSelect that tests the predicate on the region's key only, with an
\* empty feature map.
SliceSelect_execute_no_features(self, data) ==
    IF data.kind # "SliceRelation" THEN Raise("TypeError", <<>>)
    ELSE LET keyed == [i \in 1..Len(data.data) |-> <<data.data[i][1], <<>>>>]
             done == SelectRegions([sr |-> SliceRelation(data.dimensions), log |-> <<>>],
                                   self, keyed)
         IN  Outcome(done.sr, "none", done.log)

SliceSelect_execute(self, data) ==
    IF data.kind # "SliceRelation" THEN Raise("TypeError", <<>>)
    ELSE LET done == SelectRegions([sr |-> SliceRelation(data.dimensions), log |-> <<>>],
                                   self, data.data)
         IN  Outcome(done.sr, "none", done.log)

\* {fs: df for fs, df in features.items() if fs in allowed_feature_schemas}
FilterFeatures(features, allowed_feature_schemas) ==
    LET Allowed(item) == item[1] \in allowed_feature_schemas
    IN  SelectSeq(features, Allowed)

\* SliceProject._execute, lines 382-395.
RECURSIVE ProjectRegions(_, _, _, _)
ProjectRegions(sr, self, items, allowed_region_schemas) ==
    IF items = <<>> THEN sr
    ELSE LET region == Head(items)[1]
             features == Head(items)[2]
             current_region_schema == RelationSchema(DictKeys(region))
             features_to_keep ==
                 IF self.feature_schemas # NoData
                 THEN FilterFeatures(features, Range(self.feature_schemas.elems))
                 ELSE features
         IN  IF current_region_schema \in allowed_region_schemas
             THEN ProjectRegions(AddFeatures(sr, region, features_to_keep),
                                 self, Tail(items), allowed_region_schemas)
             ELSE ProjectRegions(sr, self, Tail(items), allowed_region_schemas)

SliceProject_execute(self, data) ==
    IF data.kind # "SliceRelation" THEN Raise("TypeError", <<>>)
    ELSE LET allowed_region_schemas ==
                 {RelationSchema(self.region_schemas[i]) : i \in 1..Len(self.region_schemas)}
         IN  Outcome(ProjectRegions(SliceRelation(data.dimensions), self, data.data,
                                    allowed_region_schemas),
                     "none", <<>>)

\* The cross joins of one region, ended after the first feature table.
MergeFeatures_first_only(final_df, dfs_to_merge) ==
    IF dfs_to_merge = <<>> THEN final_df
    ELSE IF Head(dfs_to_merge).rows # <<>>
    THEN MergeCross(final_df, Head(dfs_to_merge))
    ELSE final_df

\* Flatten._execute, lines 433-438: the cross joins of one region.
RECURSIVE MergeFeatures(_, _)
MergeFeatures(final_df, dfs_to_merge) ==
    IF dfs_to_merge = <<>> THEN final_df
    ELSE IF Head(dfs_to_merge).rows # <<>>
    THEN MergeFeatures(MergeCross(final_df, Head(dfs_to_merge)), Tail(dfs_to_merge))
    ELSE MergeFeatures(final_df, Tail(dfs_to_merge))

\* Flatten._execute, lines 425-441.  relations_to_merge maps each region to
\* the list of its feature tables, features.values().
\* acc = [space |-> new_relation_space, log |-> the add_relation calls made].
RECURSIVE FlattenRegions(_, _)
FlattenRegions(acc, relations_to_merge) ==
    IF relations_to_merge = <<>> THEN acc
    ELSE LET region == Head(relations_to_merge)[1]
             dfs_to_merge == Head(relations_to_merge)[2]
             region_dict == dict(region)
             region_df == DataFrame(DictKeys(region_dict), <<DictValues(region_dict)>>)
             region_schema == RelationSchema(region_df.columns)
             final_df == MergeFeatures(region_df, dfs_to_merge)
         IN  FlattenRegions(
                 [space |-> add_relation(acc.space, final_df, region_schema),
                  log |-> Append(acc.log, <<"add_relation", region, region_schema, final_df>>)],
                 Tail(relations_to_merge))

Flatten_execute(self, data) ==
    IF data.kind # "SliceRelation" THEN Raise("TypeError", <<>>)
    ELSE LET relations_to_merge ==
                 [i \in 1..Len(data.data) |-> <<data.data[i][1], DictValues(data.data[i][2])>>]
             done == FlattenRegions([space |-> RelationSpace(self.dimensions), log |-> <<>>],
                                    relations_to_merge)
         IN  Outcome(done.space, "none", done.log)

\* The operators, as records of their constructors' arguments.
CreateRelationSpaceByCube(grouping_keys, aggregations) ==
    [op |-> "CreateRelationSpaceByCube", grouping_keys |-> grouping_keys,
     aggregations |-> aggregations]

Represent(region_schemas, feature_schemas) ==
    [op |-> "Represent", region_schemas |-> region_schemas,
     feature_schemas |-> feature_schemas]

SliceTransform(slice_transformations, dimensions, drill_down_regions, parent_region_schemas) ==
    [op |-> "SliceTransform", slice_transformations |-> slice_transformations,
     dimensions |-> dimensions, drill_down_regions |-> drill_down_regions,
     parent_region_schemas |-> parent_region_schemas]

SliceSelect(predicate) == [op |-> "SliceSelect", predicate_func |-> predicate]

SliceProject(region_schemas, feature_schemas) ==
    [op |-> "SliceProject", region_schemas |-> region_schemas,
     feature_schemas |-> feature_schemas]

Flatten(dimensions) == [op |-> "Flatten", dimensions |-> dimensions]

Pipeline(operators) == [op |-> "Pipeline", operators |-> operators]

\* Crawl.__init__ with `represent_schemas = self.region_schemas`, no copy:
\* the append then changes the caller's list, which self.region_schemas and
\* SliceProject share.
Crawl_without_copy(region_schemas, slice_transformations, predicate, dimensions) ==
    LET feature_schemas ==
            [i \in 1..Len(slice_transformations) |-> slice_transformations[i].feature_schema]
        needs_ref_data ==
            \E i \in 1..Len(slice_transformations) :
                slice_transformations[i].require_reference_data
        empty_schema == RelationSchema(<<>>)
        represent_schemas ==
            IF needs_ref_data /\ empty_schema \notin Range(region_schemas)
            THEN Append(region_schemas, empty_schema)
            ELSE region_schemas
    IN  [op |-> "Crawl", region_schemas |-> represent_schemas,
         slice_transformations |-> slice_transformations,
         feature_schemas |-> feature_schemas,
         predicate_func |-> predicate, dimensions |-> dimensions,
         represent_schemas |-> represent_schemas,
         internal_pipeline |->
             Pipeline(<<Represent(represent_schemas, feature_schemas),
                        SliceTransform(slice_transformations, dimensions, NoData, NoData),
                        SliceSelect(predicate),
                        SliceProject(represent_schemas, NoData),
                        Flatten(dimensions)>>)]

\* Crawl.__init__, lines 455-491: the operator with its internal pipeline.
\* region_schemas is the caller's list as it is after the constructor ran.
Crawl(region_schemas, slice_transformations, predicate, dimensions) ==
    LET feature_schemas ==
            [i \in 1..Len(slice_transformations) |-> slice_transformations[i].feature_schema]
        needs_ref_data ==
            \E i \in 1..Len(slice_transformations) :
                slice_transformations[i].require_reference_data
        empty_schema == RelationSchema(<<>>)
        represent_schemas ==
            IF needs_ref_data /\ empty_schema \notin Range(region_schemas)
            THEN Append(region_schemas, empty_schema)
            ELSE region_schemas
    IN  [op |-> "Crawl", region_schemas |-> region_schemas,
         slice_transformations |-> slice_transformations,
         feature_schemas |-> feature_schemas,
         predicate_func |-> predicate, dimensions |-> dimensions,
         represent_schemas |-> represent_schemas,
         internal_pipeline |->
             Pipeline(<<Represent(represent_schemas, feature_schemas),
                        SliceTransform(slice_transformations, dimensions, NoData, NoData),
                        SliceSelect(predicate),
                        SliceProject(region_schemas, NoData),
                        Flatten(dimensions)>>)]

\* The outcome of `self | other`: the pipeline returned, and the two
\* operands as they are after the call.
Composed(pipeline, self, other) == [value |-> pipeline, self |-> self, other |-> other]

\* MraOperatorBase.__or__: the lists are built with `+`, which makes a new
\* list.
MraOperatorBase_or(self, other) ==
    IF other.op = "Pipeline"
    THEN Composed(Pipeline(<<self>> \o other.operators), self, other)
    ELSE Composed(Pipeline(<<self, other>>), self, other)

\* Pipeline.__or__ that extends self.operators in place and returns self.
Pipeline_or_in_place(self, other) ==
    LET extended == IF other.op = "Pipeline"
                    THEN Pipeline(self.operators \o other.operators)
                    ELSE Pipeline(self.operators \o <<other>>)
    IN  Composed(extended, extended, other)

\* Pipeline.__or__
Pipeline_or(self, other) ==
    IF other.op = "Pipeline"
    THEN Composed(Pipeline(self.operators \o other.operators), self, other)
    ELSE Composed(Pipeline(self.operators \o <<other>>), self, other)

\* self | other: Python calls the __or__ of self's class.
Or(self, other) ==
    IF self.op = "Pipeline" THEN Pipeline_or(self, other) ELSE MraOperatorBase_or(self, other)

\* MraOperatorBase.__call__: dispatches to the class's _execute.
RECURSIVE Execute(_, _)

\* The loop of Pipeline._execute with `op(data)` for `op(result)`: every
\* operator is given the pipeline's input.
RECURSIVE RunOperators_on_input(_, _, _, _)
RunOperators_on_input(operators, data, value, calls) ==
    IF operators = <<>> THEN Outcome(value, "none", calls)
    ELSE LET out == Execute(Head(operators), data)
             made == Append(calls, <<"operator", Head(operators), data>>) \o out.log
         IN  IF out.err # "none" THEN Raise(out.err, made)
             ELSE RunOperators_on_input(Tail(operators), data, out.value, made)

\* Pipeline._execute: the operators in sequence; an exception ends the run.
\* `data` is the pipeline's input, `value` the variable `result` of the loop,
\* `calls` the calls made so far, each operator call with its argument.
RECURSIVE RunOperators(_, _, _, _)
RunOperators(operators, data, value, calls) ==
    IF operators = <<>> THEN Outcome(value, "none", calls)
    ELSE LET out == Execute(Head(operators), value)
             made == Append(calls, <<"operator", Head(operators), value>>) \o out.log
         IN  IF out.err # "none" THEN Raise(out.err, made)
             ELSE RunOperators(Tail(operators), data, out.value, made)

Pipeline_execute(self, data) == RunOperators(self.operators, data, data, <<>>)

\* Crawl._execute
Crawl_execute(self, data) ==
    IF data.kind # "RelationSpace" THEN Raise("TypeError", <<>>)
    ELSE Execute(self.internal_pipeline, data)

Execute(operator, data) ==
    CASE operator.op = "CreateRelationSpaceByCube" ->
            CreateRelationSpaceByCube_execute(operator, data)
      [] operator.op = "Represent" -> Represent_execute(operator, data)
      [] operator.op = "SliceTransform" -> SliceTransform_execute(operator, data)
      [] operator.op = "SliceSelect" -> SliceSelect_execute(operator, data)
      [] operator.op = "SliceProject" -> SliceProject_execute(operator, data)
      [] operator.op = "Flatten" -> Flatten_execute(operator, data)
      [] operator.op = "Pipeline" -> Pipeline_execute(operator, data)
      [] operator.op = "Crawl" -> Crawl_execute(operator, data)

\* The value an operator was called on, as the call leaves it.  Represent,
\* SliceSelect, SliceProject and Flatten read `data` and write only to the
\* structure they return; Represent puts copies of its input's tables in its
\* output (lines 139 and 148), so the later operators of a pipeline that
\* starts with Represent, as Crawl's does, do not reach the input's tables.
InputAfter(operator, data) ==
    IF operator.op = "SliceTransform" THEN SliceTransform_input_after(operator, data)
    ELSE data

\* The entries (region, feature schema) of an operator's output whose table
\* is the very object the input holds under that entry.  SliceSelect (line
\* 359) and SliceProject (line 395) hand the input's feature_df to
\* add_slice_tuple, which stores the object it is given; SliceTransform
\* stores the result of transformation(feature_df.copy()) (line 323) and
\* feature_df.copy() (line 333), tables of its own.
AliasedTables(operator, data) ==
    LET out == Execute(operator, data)
    IN  IF out.err # "none" \/ operator.op \notin {"SliceSelect", "SliceProject"}
        THEN {}
        ELSE UNION {{<<item[1], feature[1]>> : feature \in Range(item[2])} :
                        item \in Range(out.value.data)}

(***************************************************************************)
(* Inputs of the data model.                                               *)
(***************************************************************************)
SeqsUpTo(S, n) == UNION {[1..k -> S] : k \in 0..n}

AttrNames == {"Browser", "Cost", "Device"}

AttrLists == SeqsUpTo(AttrNames, MaxAttrs)

\* The (attribute, value) items a region dictionary is built from.
Items ==
    {<<"Device", "Pixel">>, <<"Device", "iPhone">>,
     <<"Browser", "Chrome">>, <<"Browser", "Safari">>, <<"Cost", 100>>}

DistinctKeys(d) == \A i, j \in 1..Len(d) : d[i][1] = d[j][1] => i = j

Dicts == {d \in SeqsUpTo(Items, MaxAttrs) : DistinctKeys(d)}

\* setUp of mra_data_test.py: RelationSchema(['Device', 'Browser'])
TestDimensions == RelationSchema(<<"Device", "Browser">>)

\* The relations of test_add_relation_valid and test_add_relation_invalid,
\* and a second relation with the columns of the valid one.
ValidRelation == DataFrame(<<"Device", "Cost">>, << <<"Pixel", 100>> >>)

InvalidRelation ==
    DataFrame(<<"Device", "Browser", "Revenue">>, << <<"Pixel", "Chrome", 500>> >>)

OtherRelation == DataFrame(<<"Device", "Cost">>, << <<"iPhone", 200>> >>)

TestRelations == {ValidRelation, InvalidRelation, OtherRelation}

DimSchemas == {RelationSchema(l) : l \in {<<>>, <<"Device">>, <<"Browser">>, <<"Device", "Browser">>}}

(***************************************************************************)
(* The data model as a state machine: the two constructors applied to      *)
(* pairs of inputs, and a RelationSpace under add_relation/get_relation.   *)
(***************************************************************************)
InitData ==
    /\ call = NoCall
    /\ input = NoData
    /\ input_after = NoData
    /\ result = NoData
    /\ err = "none"
    /\ log = <<>>
    /\ depth = 0

\* RelationSchema(l1) and RelationSchema(l2), built side by side.
NewSchemas ==
    /\ depth = 0
    /\ \E l1, l2 \in AttrLists :
        /\ call' = [op |-> "RelationSchema", args |-> <<l1, l2>>]
        /\ result' = [kind |-> "Pair", a |-> RelationSchema(l1), b |-> RelationSchema(l2)]
    /\ input' = NoData
    /\ input_after' = NoData
    /\ err' = "none"
    /\ depth' = depth + 1
    /\ UNCHANGED log

\* create_relation_tuple(d1) and create_relation_tuple(d2), side by side.
NewTuples ==
    /\ depth = 0
    /\ \E d1, d2 \in Dicts :
        /\ call' = [op |-> "create_relation_tuple", args |-> <<d1, d2>>]
        /\ result' = [kind |-> "Pair", a |-> create_relation_tuple(d1),
                                       b |-> create_relation_tuple(d2)]
    /\ input' = NoData
    /\ input_after' = NoData
    /\ err' = "none"
    /\ depth' = depth + 1
    /\ UNCHANGED log

NewRelationSpace ==
    /\ depth = 0
    /\ call' = [op |-> "RelationSpace", args |-> <<TestDimensions>>]
    /\ result' = RelationSpace(TestDimensions)
    /\ input' = NoData
    /\ input_after' = NoData
    /\ err' = "none"
    /\ depth' = depth + 1
    /\ UNCHANGED log

\* space.add_relation(relation, schema): the code stores and never raises.
\* `result` is the space after the call.
AddRelation ==
    /\ result.kind = "RelationSpace"
    /\ depth < MaxCalls
    /\ \E relation \in TestRelations, schema \in DimSchemas :
        /\ call' = [op |-> "add_relation", args |-> <<relation, schema>>]
        /\ result' = add_relation(result, relation, schema)
        /\ input_after' = add_relation(result, relation, schema)
    /\ input' = result
    /\ err' = "none"
    /\ depth' = depth + 1
    /\ UNCHANGED log

\* space.get_relation(RelationSchema(l)): returns the relation or None.
GetRelation ==
    /\ result.kind = "RelationSpace"
    /\ depth <= MaxCalls
    /\ \E l \in AttrLists :
        /\ call' = [op |-> "get_relation", args |-> <<l>>]
        /\ result' = get_relation(result, RelationSchema(l))
    /\ input' = result
    /\ input_after' = result
    /\ err' = "none"
    /\ depth' = depth + 1
    /\ UNCHANGED log

NextData ==
    \/ NewSchemas
    \/ NewTuples
    \/ NewRelationSpace
    \/ AddRelation
    \/ GetRelation

SpecData == InitData /\ [][NextData]_vars

(***************************************************************************)
(* Inputs of the operators.                                                *)
(***************************************************************************)
Devices == {"Pixel", "iPhone"}

Browsers == {"Chrome", "Safari"}

\* Base tables over the columns (Device, Browser, Cost) of the tests, of 1
\* to MaxRows rows; the i-th row costs 100 * i, as the rows (Pixel, Chrome,
\* 100), (Pixel, Safari, 200) of test_crawl_with_bfs_drill_down do.
BaseTables ==
    {DataFrame(<<"Device", "Browser", "Cost">>,
               [i \in 1..Len(keys) |-> <<keys[i][1], keys[i][2], 100 * i>>]) :
        keys \in UNION {[1..n -> Devices \X Browsers] : n \in 1..MaxRows}}

\* Base tables with the two value columns of flatten_example.py and
\* slice_transform_example.py; the i-th row has 10 * i clicks at a cost of 10
\* per click.
ClickTables ==
    {DataFrame(<<"Device", "Browser", "Clicks", "Cost">>,
               [i \in 1..Len(keys) |-> <<keys[i][1], keys[i][2], 10 * i, 100 * i>>]) :
        keys \in UNION {[1..n -> Devices \X Browsers] : n \in 1..MaxRows}}

\* aggregations: 'sum' of every value column of the table.
Aggregations(data) == IF HasColumn(data, "Clicks") THEN <<"Clicks", "Cost">> ELSE <<"Cost">>

GroupingKeyLists ==
    {<<"Device", "Browser">>, <<"Browser", "Device">>, <<"Device">>, <<>>}

DeviceSchema == RelationSchema(<<"Device">>)
BrowserSchema == RelationSchema(<<"Browser">>)
DeviceBrowserSchema == RelationSchema(<<"Device", "Browser">>)
EmptySchema == RelationSchema(<<>>)
CostSchema == RelationSchema(<<"Cost">>)
DeviceCostSchema == RelationSchema(<<"Device", "Cost">>)
RevenueSchema == RelationSchema(<<"Revenue">>)
ClicksSchema == RelationSchema(<<"Clicks">>)
DeviceBrowserCostSchema == RelationSchema(<<"Device", "Browser", "Cost">>)
ClicksCostSchema == RelationSchema(<<"Clicks", "Cost">>)

RegionSchemaLists ==
    {<<DeviceSchema, BrowserSchema, DeviceBrowserSchema>>,
     <<DeviceBrowserSchema>>,
     <<EmptySchema, DeviceSchema>>}

FeatureSchemaLists ==
    {<<CostSchema>>,
     <<DeviceCostSchema>>,
     <<RevenueSchema>>,
     <<ClicksSchema, CostSchema>>,
     <<ClicksCostSchema>>,
     <<CostSchema, ClicksCostSchema>>}

\* CopyTransformation of mra_operators_test.py, and a subclass of
\* SliceTransformation that overrides require_reference_data to True.
CopyTransformation(feature_schema) ==
    [name |-> "CopyTransformation", feature_schema |-> feature_schema,
     require_reference_data |-> FALSE]

ReferenceTransformation(feature_schema) ==
    [name |-> "ReferenceTransformation", feature_schema |-> feature_schema,
     require_reference_data |-> TRUE]

\* RatioTransformation(numerator_col, denominator_col, output_col)
RatioTransformation(numerator_col, denominator_col, output_col) ==
    [name |-> "RatioTransformation",
     feature_schema |-> RelationSchema(<<numerator_col, denominator_col>>),
     require_reference_data |-> FALSE,
     numerator_col |-> numerator_col, denominator_col |-> denominator_col,
     output_col |-> output_col]

\* A transformation that writes its output column into the table it is
\* given and returns that table: RatioTransformation.__call__ without its
\* `data.copy()`.
InPlaceTransformation(numerator_col, denominator_col, output_col) ==
    [name |-> "InPlaceTransformation",
     feature_schema |-> RelationSchema(<<numerator_col, denominator_col>>),
     require_reference_data |-> FALSE,
     numerator_col |-> numerator_col, denominator_col |-> denominator_col,
     output_col |-> output_col]

TransformationLists ==
    {<<CopyTransformation(CostSchema)>>, <<ReferenceTransformation(CostSchema)>>,
     <<RatioTransformation("Cost", "Clicks", "Cpc")>>,
     <<InPlaceTransformation("Cost", "Clicks", "Cpc")>>,
     <<CopyTransformation(ClicksCostSchema), RatioTransformation("Cost", "Clicks", "Cpc")>>,
     <<RatioTransformation("Cost", "Clicks", "Cpc"), CopyTransformation(ClicksCostSchema)>>}

PixelRegion == create_relation_tuple(<<<<"Device", "Pixel">>>>)
ChromeRegion == create_relation_tuple(<<<<"Browser", "Chrome">>>>)
SafariRegion == create_relation_tuple(<<<<"Browser", "Safari">>>>)

\* Drill-down frontiers [regions, schemas]: none, the BFS and DFS frontiers
\* of the tests, one on the Browser level, one with no validated parent,
\* one that gives the regions without the schemas and one that gives the
\* schemas without the regions.
NoFrontier == [regions |-> NoData, schemas |-> NoData]
BfsFrontier == [regions |-> Some({PixelRegion, ChromeRegion}),
                schemas |-> Some({DeviceSchema, BrowserSchema})]
DfsFrontier == [regions |-> Some({PixelRegion}), schemas |-> Some({DeviceSchema})]

Frontiers ==
    {NoFrontier, BfsFrontier, DfsFrontier,
     [regions |-> Some({SafariRegion}), schemas |-> Some({BrowserSchema})],
     [regions |-> Some({}), schemas |-> Some({DeviceSchema})],
     [regions |-> Some({}), schemas |-> NoData],
     [regions |-> NoData, schemas |-> Some({DeviceSchema})]}

Predicates == {"always_true", "always_false", "is_pixel", "has_cost"}

FeatureAllowLists == {NoData, Some(<<CostSchema>>), Some(<<RevenueSchema>>)}

\* The keyword arguments Crawl.__init__ declares, and those of the call in
\* test_crawl_with_bfs_drill_down.
CrawlParameters == {"region_schemas", "slice_transformations", "predicate_func", "dimensions"}
FrontierKeywords == {"drill_down_regions", "parent_region_schemas"}

(***************************************************************************)
(* The operators as a state machine.  A run starts from a base table; each *)
(* step calls one operator on the current value.                           *)
(***************************************************************************)
Init ==
    /\ call = NoCall
    /\ input = NoData
    /\ input_after = NoData
    /\ result \in BaseTables \cup ClickTables
    /\ err = "none"
    /\ log = <<>>
    /\ depth = 0

\* operator(result)
Step(operator) ==
    LET out == Execute(operator, result)
    IN  /\ call' = operator
        /\ input' = result
        /\ input_after' = InputAfter(operator, result)
        /\ result' = out.value
        /\ err' = out.err
        /\ log' = out.log
        /\ depth' = depth + 1

DoCube ==
    /\ result.kind = "DataFrame"
    /\ depth = 0
    /\ \E grouping_keys \in GroupingKeyLists :
        Step(CreateRelationSpaceByCube(grouping_keys, Aggregations(result)))

DoRepresent ==
    /\ call.op = "CreateRelationSpaceByCube"
    /\ \E region_schemas \in RegionSchemaLists, feature_schemas \in FeatureSchemaLists :
        Step(Represent(region_schemas, feature_schemas))

DoSliceTransform ==
    /\ call.op = "Represent"
    /\ \E ts \in TransformationLists, frontier \in Frontiers :
        Step(SliceTransform(ts, input.dimensions, frontier.regions, frontier.schemas))

DoSliceSelect ==
    /\ call.op = "Represent"
    /\ \E predicate \in Predicates : Step(SliceSelect(predicate))

DoSliceProject ==
    /\ call.op = "Represent"
    /\ \E region_schemas \in RegionSchemaLists, feature_schemas \in FeatureAllowLists :
        Step(SliceProject(region_schemas, feature_schemas))

\* Flatten(dimensions)(result), with the dimensions of the slice relation
\* or with those of crawl_support_example.py.
\* operator(operator(x)) for SliceSelect and SliceProject: the operator that
\* has just returned is called on what it returned.  The pipeline so far is
\* the cube, Represent and the operator, so the second call is the fourth.
DoRepeat ==
    /\ call.op \in {"SliceSelect", "SliceProject"}
    /\ err = "none"
    /\ depth = 3
    /\ Step(call)

DoFlatten ==
    /\ result.kind = "SliceRelation"
    /\ \E dimensions \in {result.dimensions, DeviceBrowserCostSchema} :
        Step(Flatten(dimensions))

\* The operator lists of the pipelines: Represent | SliceProject | Flatten on
\* the same region schemas (the round trip of a cube), a pipeline whose
\* SliceTransform lacks its reference data, and one whose second operator
\* is given a value of the wrong type.
PipelineLists(dimensions) ==
    {<<Represent(region_schemas, <<CostSchema>>),
       SliceProject(region_schemas, NoData),
       Flatten(dimensions)>> : region_schemas \in RegionSchemaLists}
    \cup
    {<<Represent(<<DeviceSchema>>, <<CostSchema>>),
       SliceTransform(<<ReferenceTransformation(CostSchema)>>, dimensions, NoData, NoData),
       SliceSelect("always_true"),
       Flatten(dimensions)>>,
     <<Represent(<<DeviceSchema>>, <<CostSchema>>),
       Represent(<<DeviceSchema>>, <<CostSchema>>),
       Flatten(dimensions)>>}

DoPipeline ==
    /\ call.op = "CreateRelationSpaceByCube"
    /\ \E operators \in PipelineLists(result.dimensions) : Step(Pipeline(operators))

\* Crawl(**keywords)(result).  The keywords are those of Crawl.__init__,
\* and with a frontier also drill_down_regions and parent_region_schemas as in
\* test_crawl_with_bfs_drill_down; a keyword that Crawl.__init__ does not
\* declare makes the constructor raise TypeError, and nothing is run.
DoCrawl ==
    /\ call.op = "CreateRelationSpaceByCube"
    /\ \E region_schemas \in RegionSchemaLists, ts \in TransformationLists,
          predicate \in Predicates, frontier \in {NoFrontier, BfsFrontier, DfsFrontier} :
        LET keywords == CrawlParameters \cup
                            (IF frontier = NoFrontier THEN {} ELSE FrontierKeywords)
            operator == Crawl(region_schemas, ts, predicate, DeviceBrowserSchema)
            out == IF keywords \subseteq CrawlParameters
                   THEN Execute(operator, result)
                   ELSE Raise("TypeError", <<>>)
        IN  /\ call' = [op |-> "Crawl", operator |-> operator, frontier |-> frontier,
                         args |-> [region_schemas |-> region_schemas,
                                   slice_transformations |-> ts,
                                   predicate_func |-> predicate,
                                   dimensions |-> DeviceBrowserSchema]]
            /\ input' = result
            /\ input_after' = IF keywords \subseteq CrawlParameters
                               THEN InputAfter(operator, result)
                               ELSE result
            /\ result' = out.value
            /\ err' = out.err
            /\ log' = out.log
            /\ depth' = depth + 1

Next ==
    \/ DoCube
    \/ DoRepresent
    \/ DoSliceTransform
    \/ DoSliceSelect
    \/ DoSliceProject
    \/ DoRepeat
    \/ DoFlatten
    \/ DoPipeline
    \/ DoCrawl

Spec == Init /\ [][Next]_vars

(***************************************************************************)
(* Composition with `|` as a state machine: three operands, operators or   *)
(* pipelines, are composed in both groupings.                              *)
(***************************************************************************)
Operands ==
    {Represent(<<DeviceSchema>>, <<CostSchema>>),
     SliceSelect("always_true"),
     Flatten(DeviceBrowserSchema),
     Crawl(<<DeviceSchema>>, <<CopyTransformation(CostSchema)>>, "always_true",
           DeviceBrowserSchema),
     Pipeline(<<Represent(<<DeviceSchema>>, <<CostSchema>>),
                SliceProject(<<DeviceSchema>>, NoData)>>),
     Pipeline(<<Flatten(DeviceBrowserSchema)>>),
     Pipeline(<<>>)}

InitCompose ==
    /\ call = NoCall
    /\ input = NoData
    /\ input_after = NoData
    /\ result = NoData
    /\ err = "none"
    /\ log = <<>>
    /\ depth = 0

\* (a | b) | c and a | (b | c).  `result` holds the two pipelines and, for
\* each grouping, the operands a, b, c as they are after the composition.
Compose ==
    /\ depth = 0
    /\ \E a, b, c \in Operands :
        LET ab == Or(a, b)
            ab_c == Or(ab.value, c)
            bc == Or(b, c)
            a_bc == Or(a, bc.value)
        IN  /\ call' = [op |-> "or", args |-> <<a, b, c>>]
            /\ result' = [kind |-> "Composition",
                          left |-> ab_c.value, right |-> a_bc.value,
                          inner |-> <<ab.value, ab_c.self, bc.value, a_bc.other>>,
                          left_operands |-> <<ab.self, ab.other, ab_c.other>>,
                          right_operands |-> <<a_bc.self, bc.self, bc.other>>]
    /\ input' = NoData
    /\ input_after' = NoData
    /\ err' = "none"
    /\ depth' = depth + 1
    /\ UNCHANGED log

NextCompose == Compose

SpecCompose == InitCompose /\ [][NextCompose]_vars

(***************************************************************************)
(* Two runs of SliceTransform._execute on one operator, interleaved.  The  *)
(* operator's transformation is one instance, whose _reference_data the    *)
(* runs assign at line 306 and whose calls at line 323 read it.  `call`    *)
(* holds the operator and that attribute, `input` the two inputs, `result` *)
(* the position and the locals of each run, `log` the reference table the  *)
(* instance held at each transformation call.                              *)
(***************************************************************************)
SharedTransformation == ReferenceTransformation(CostSchema)

SharedOperator ==
    SliceTransform(<<SharedTransformation>>, DeviceBrowserSchema, NoData, NoData)

\* Base tables of 1 to MaxRows rows whose devices alternate; the i-th row
\* costs 100 * i, so tables of different length have different totals.
ConcurrentTables ==
    {DataFrame(<<"Device", "Browser", "Cost">>,
               [i \in 1..n |-> <<IF i % 2 = 1 THEN "Pixel" ELSE "iPhone", "Chrome", 100 * i>>]) :
        n \in 1..MaxRows}

\* The slice relations the runs work on: with the empty region, whose Cost
\* table is the reference table of the run, and without it.
ConcurrentInputs ==
    {Execute(Represent(region_schemas, <<CostSchema>>),
             Execute(CreateRelationSpaceByCube(<<"Device">>, <<"Cost">>), table).value).value :
        table \in ConcurrentTables,
        region_schemas \in {<<EmptySchema, DeviceSchema>>, <<DeviceSchema>>}}

Runs == {1, 2}

\* reference_features.get(transformation.feature_schema), lines 299-305.
ReferenceOf(data) ==
    LET reference_features ==
            IF DictHas(data.data, empty_region_tuple)
            THEN DictGet(data.data, empty_region_tuple) ELSE <<>>
    IN  DictGet(reference_features, SharedTransformation.feature_schema)

InitConcurrent ==
    /\ call = [op |-> "SliceTransform", operator |-> SharedOperator,
               reference_data |-> NoData]
    /\ \E d1, d2 \in ConcurrentInputs :
        /\ input = <<d1, d2>>
        /\ input_after = <<d1, d2>>
        /\ result = [r \in Runs |->
                        [pc |-> "bind", items |-> <<d1, d2>>[r].data,
                         new_slice_relation |-> SliceRelation(SharedOperator.dimensions),
                         err |-> "none"]]
    /\ err = "none"
    /\ log = <<>>
    /\ depth = 0

\* Lines 302-306 of one run: `transformation.reference_data = ref_data`.
\* The setter raises ValueError on None and stores the table otherwise.
BindReference(r) ==
    /\ result[r].pc = "bind"
    /\ LET ref_data == ReferenceOf(input[r])
       IN  IF ref_data = NoData
           THEN /\ result' = [result EXCEPT ![r].pc = "done", ![r].err = "ValueError"]
                /\ UNCHANGED call
           ELSE /\ result' = [result EXCEPT ![r].pc = "regions"]
                /\ call' = [call EXCEPT !.reference_data = ref_data]
    /\ depth' = depth + 1
    /\ UNCHANGED <<input, input_after, err, log>>

\* One iteration of the region loop of one run, lines 308-333.  Each
\* transformation call of the iteration runs on the shared instance as it
\* is now.
TransformRegion(r) ==
    /\ result[r].pc = "regions"
    /\ result[r].items # <<>>
    /\ LET done == TransformRegions(
                       [sr |-> result[r].new_slice_relation, log |-> <<>>],
                       call.operator, <<Head(result[r].items)>>,
                       TransformMap(call.operator.slice_transformations))
       IN  /\ result' = [result EXCEPT ![r].new_slice_relation = done.sr,
                                       ![r].items = Tail(result[r].items)]
           /\ log' = log \o [k \in 1..Len(done.log) |->
                                <<"reference", r, done.log[k][3], call.reference_data>>]
    /\ depth' = depth + 1
    /\ UNCHANGED <<call, input, input_after, err>>

\* Line 335 of one run: `return new_slice_relation`.
Return(r) ==
    /\ result[r].pc = "regions"
    /\ result[r].items = <<>>
    /\ result' = [result EXCEPT ![r].pc = "done"]
    /\ depth' = depth + 1
    /\ UNCHANGED <<call, input, input_after, err, log>>

NextConcurrent ==
    \E r \in Runs : BindReference(r) \/ TransformRegion(r) \/ Return(r)

SpecConcurrent == InitConcurrent /\ [][NextConcurrent]_vars

(***************************************************************************)
(* Properties of the data model.                                           *)
(***************************************************************************)
\* The dimensional columns of a relation: its columns that are dimensions.
DimensionalColumns(relation, dimensions) == Range(relation.columns) \cap Range(dimensions)

\* C1: add_relation(table, schema) raises ValueError and leaves the space
\* unchanged whenever the table's columns intersected with the space's
\* dimensions are not exactly `schema`; otherwise it succeeds and the table is
\* stored under `schema`.
C1_AddRelationValidates ==
    call.op = "add_relation" =>
        IF DimensionalColumns(call.args[1], input.dimensions) # Range(call.args[2])
        THEN err = "ValueError" /\ result = input
        ELSE err = "none" /\ get_relation(result, call.args[2]) = call.args[1]

IsPermutation(l1, l2) ==
    /\ Len(l1) = Len(l2)
    /\ \E p \in [1..Len(l1) -> 1..Len(l1)] :
        /\ \A i, j \in 1..Len(l1) : p[i] = p[j] => i = j
        /\ \A i \in 1..Len(l1) : l2[i] = l1[p[i]]

SortedByAttribute(t) == \A i \in 1..(Len(t) - 1) : StrLess(t[i][1], t[i + 1][1])

\* C6: RelationSchema(L) = RelationSchema(L') for every permutation L' of L,
\* so that a map entry stored under one is found under the other; and
\* create_relation_tuple gives equal tuples, sorted by attribute name, for two
\* mappings with the same key/value pairs in any insertion order.
C6_Canonicalization ==
    /\ (call.op = "RelationSchema" /\ IsPermutation(call.args[1], call.args[2])) =>
            /\ result.a = result.b
            /\ DictGet(DictSet(<<>>, result.a, "entry"), result.b) = "entry"
    /\ (call.op = "create_relation_tuple" /\ Range(call.args[1]) = Range(call.args[2])) =>
            /\ result.a = result.b
            /\ SortedByAttribute(result.a)
            /\ Range(result.a) = Range(call.args[1])

\* C6 witness: two different orderings of the same attributes, and two
\* different insertion orders of the same mapping, were canonicalized.
C6_Witness ==
    /\ call.op = "RelationSchema"
    /\ call.args[1] = <<"Device", "Browser">>
    /\ call.args[2] = <<"Browser", "Device">>
    /\ result.a = <<"Browser", "Device">>

(***************************************************************************)
(* Properties of the operators.                                            *)
(***************************************************************************)
Regions(sr) == Range(DictKeys(sr.data))

\* The attribute names of a region key.
RegionAttributes(region) == Range(DictKeys(region))

\* The descendant check, as the specification states it: every projection
\* of the region on all but one component whose schema is a parent schema
\* is a parent region.
PassesDescendantCheck(region, parent_regions, parent_schemas) ==
    \A i \in 1..Len(region) :
        LET projection == [j \in 1..(Len(region) - 1) |->
                              IF j < i THEN region[j] ELSE region[j + 1]]
            P == [j \in 1..Len(projection) |-> projection[j][1]]
        IN  P \in parent_schemas => projection \in parent_regions

PixelChrome == create_relation_tuple(<<<<"Device", "Pixel">>, <<"Browser", "Chrome">>>>)
PixelSafari == create_relation_tuple(<<<<"Device", "Pixel">>, <<"Browser", "Safari">>>>)

FrontierGiven ==
    /\ call.op = "SliceTransform"
    /\ call.drill_down_regions # NoData
    /\ call.parent_region_schemas # NoData

\* C2: when SliceTransform is given a drill-down frontier, a non-empty input
\* region is in the output iff it passes the descendant check; with the BFS
\* frontier (Pixel, Chrome) is kept and (Pixel, Safari) dropped, with the DFS
\* frontier both are kept.
C2_DrillDownPrunes ==
    (FrontierGiven /\ err = "none") =>
        /\ \A region \in Regions(input) \ {<<>>} :
                region \in Regions(result) <=>
                    PassesDescendantCheck(region, call.drill_down_regions.elems,
                                          call.parent_region_schemas.elems)
        /\ Regions(result) \subseteq Regions(input)
        /\ ({PixelChrome, PixelSafari} \subseteq Regions(input)
                /\ call.drill_down_regions = BfsFrontier.regions
                /\ call.parent_region_schemas = BfsFrontier.schemas) =>
                    (PixelChrome \in Regions(result) /\ PixelSafari \notin Regions(result))
        /\ ({PixelChrome, PixelSafari} \subseteq Regions(input)
                /\ call.drill_down_regions = DfsFrontier.regions
                /\ call.parent_region_schemas = DfsFrontier.schemas) =>
                    {PixelChrome, PixelSafari} \subseteq Regions(result)

\* C2 witness: the BFS frontier pruned (Pixel, Safari) and kept (Pixel, Chrome).
C2_Witness ==
    /\ FrontierGiven
    /\ call.drill_down_regions = BfsFrontier.regions
    /\ call.parent_region_schemas = BfsFrontier.schemas
    /\ err = "none"
    /\ {PixelChrome, PixelSafari} \subseteq Regions(input)
    /\ PixelChrome \in Regions(result)
    /\ PixelSafari \notin Regions(result)

\* The rows of a table as a set of column-to-value maps (row and column
\* order aside).
RowSet(df) ==
    {[c \in Range(df.columns) |-> df.rows[i][ColIndex(df, c)]] : i \in 1..Len(df.rows)}

\* The region a row of a flattened relation belongs to.
RowRegion(row, schema) == [j \in 1..Len(schema) |-> <<schema[j], row[schema[j]]>>]

CrawlWithFrontier == call.op = "Crawl" /\ call.frontier # NoFrontier

\* The base table of test_crawl_with_bfs_drill_down, cubed on (Device, Browser).
TestBase ==
    DataFrame(<<"Device", "Browser", "Cost">>,
              << <<"Pixel", "Chrome", 100>>, <<"Pixel", "Safari", 200>> >>)

TestCube ==
    Execute(CreateRelationSpaceByCube(<<"Device", "Browser">>, <<"Cost">>), TestBase).value

\* C3: Crawl accepts a drill-down frontier and applies it in its SliceTransform
\* stage: every region of its output passes the descendant check against the
\* frontier, and on the test's input (region schema {Device, Browser}, a copy
\* transformation on {Cost}, an always-true predicate, the BFS frontier) the
\* output has exactly one relation, keyed (Browser, Device), whose row is the
\* region (Pixel, Chrome).
C3_CrawlAppliesFrontier ==
    CrawlWithFrontier =>
        /\ err = "none"
        /\ \A i \in 1..Len(result.relations) :
              \A row \in RowSet(result.relations[i][2]) :
                  PassesDescendantCheck(RowRegion(row, result.relations[i][1]),
                                        call.frontier.regions.elems,
                                        call.frontier.schemas.elems)
        /\ (/\ input = TestCube
            /\ call.frontier = BfsFrontier
            /\ call.operator.region_schemas = <<DeviceBrowserSchema>>
            /\ call.operator.slice_transformations = <<CopyTransformation(CostSchema)>>
            /\ call.operator.predicate_func = "always_true") =>
                /\ Len(result.relations) = 1
                /\ result.relations[1][1] = <<"Browser", "Device">>
                /\ RowSet(result.relations[1][2]) =
                       {[Browser |-> "Chrome", Device |-> "Pixel", Cost |-> 100]}

RoundTripSchemas == <<DeviceSchema, BrowserSchema, DeviceBrowserSchema>>

RoundTrip ==
    /\ call.op = "Pipeline"
    /\ call.operators[1].region_schemas = RoundTripSchemas
    /\ Range(input.dimensions) = {"Device", "Browser"}

\* C4: for a cube over (Device, Browser), Represent on the region schemas
\* {Device}, {Browser}, {Device, Browser} and the value columns, then
\* SliceProject on the same schemas, then Flatten gives under each of those
\* schemas a relation with the same set of rows as the cube's relation.
C4_RoundTrip ==
    RoundTrip =>
        /\ err = "none"
        /\ \A i \in 1..Len(RoundTripSchemas) :
              /\ get_relation(result, RoundTripSchemas[i]) # NoData
              /\ RowSet(get_relation(result, RoundTripSchemas[i])) =
                     RowSet(get_relation(input, RoundTripSchemas[i]))

\* The stored keys of a space, as a set.
StoredKeys(space) == Range(DictKeys(space.relations))

Pow2(k) == IF k = 0 THEN 1 ELSE IF k = 1 THEN 2 ELSE 4

\* C5: CreateRelationSpaceByCube with k distinct grouping keys on a non-empty
\* table returns a space whose dimension schema is the grouping-key set and
\* which holds exactly 2^k relations, one under each subset of the keys, the
\* empty subset holding the single grand-total row; for (Device, Browser) the
\* keys are {}, {Device}, {Browser}, {Device, Browser}.
C5_CubeCompleteness ==
    call.op = "CreateRelationSpaceByCube" =>
        /\ err = "none"
        /\ result.kind = "RelationSpace"
        /\ Range(result.dimensions) = Range(call.grouping_keys)
        /\ Len(result.dimensions) = Len(call.grouping_keys)
        /\ Len(result.relations) = Pow2(Len(call.grouping_keys))
        /\ \A S \in SUBSET Range(call.grouping_keys) :
              \E i \in 1..Len(result.relations) :
                  /\ Range(result.relations[i][1]) = S
                  /\ Len(result.relations[i][1]) = Cardinality(S)
                  /\ \A j \in 1..Len(result.relations) :
                        Range(result.relations[j][1]) = S => j = i
        /\ Len(get_relation(result, <<>>).rows) = 1
        /\ get_relation(result, <<>>).rows[1] =
               [j \in 1..Len(call.aggregations) |->
                   SeqSum([i \in 1..Len(input.rows) |->
                              input.rows[i][ColIndex(input, call.aggregations[j])]])]
        /\ Range(call.grouping_keys) = {"Device", "Browser"} =>
              StoredKeys(result) = {<<>>, <<"Device">>, <<"Browser">>, <<"Browser", "Device">>}

\* C5 witness: a cube over (Device, Browser) with its four relations.
C5_Witness ==
    /\ call.op = "CreateRelationSpaceByCube"
    /\ call.grouping_keys = <<"Device", "Browser">>
    /\ Len(input.rows) = 2
    /\ Len(result.relations) = 4

\* A transformation of the call requires reference data that the input's
\* empty region does not hold.
ReferenceMissing ==
    /\ call.op = "SliceTransform"
    /\ \E t \in Range(call.slice_transformations) :
          /\ t.require_reference_data
          /\ ~\E item \in Range(input.data) :
                /\ item[1] = <<>>
                /\ t.feature_schema \in Range(DictKeys(item[2]))

\* C7: if a transformation requires reference data and the input's empty
\* region has no feature table under its feature schema (or there is no empty
\* region), SliceTransform raises ValueError before any region is transformed
\* and returns no SliceRelation.
C7_MissingReferenceFailsFast ==
    ReferenceMissing =>
        /\ err = "ValueError"
        /\ result = NoData
        /\ log = <<>>

\* C7 witness: the call failed on an input that has regions to transform.
C7_Witness ==
    /\ ReferenceMissing
    /\ err = "ValueError"
    /\ \E item \in Range(input.data) :
          item[1] # <<>> /\ CostSchema \in Range(DictKeys(item[2]))

\* C8: the output of SliceSelect holds exactly the slice tuples of the input
\* for which the predicate is true, each with its complete feature map.
C8_SelectKeepsExactly ==
    call.op = "SliceSelect" =>
        /\ err = "none"
        /\ Range(result.data) =
               {item \in Range(input.data) :
                    predicate_func(call.predicate_func, item[1], item[2])}
        /\ Len(result.data) = Cardinality(Regions(result))

\* C8 witness: a predicate kept one region and dropped another.
C8_Witness ==
    /\ call.op = "SliceSelect"
    /\ call.predicate_func = "is_pixel"
    /\ \E kept, dropped \in Range(input.data) :
          /\ kept \in Range(result.data)
          /\ dropped \notin Range(result.data)

\* C9: SliceProject keeps a slice tuple iff the set of attribute names of its
\* region key is in the region allow-list; a kept tuple holds the feature
\* tables whose schema is in the feature allow-list, or all of them when no
\* feature allow-list is given.
C9_ProjectKeepsBySchema ==
    call.op = "SliceProject" =>
        /\ err = "none"
        /\ \A item \in Range(input.data) :
              item[1] \in Regions(result) <=>
                  \E rs \in Range(call.region_schemas) :
                      Range(rs) = RegionAttributes(item[1])
        /\ \A item \in Range(result.data) :
              \E source \in Range(input.data) :
                  /\ source[1] = item[1]
                  /\ Range(item[2]) =
                         {f \in Range(source[2]) :
                              \/ call.feature_schemas = NoData
                              \/ f[1] \in Range(call.feature_schemas.elems)}

\* Represent contributed slice tuples for the pair (R, F).
Contributes(R, F) ==
    \E item \in Range(result.data) :
        /\ DictKeys(item[1]) = R
        /\ F \in Range(DictKeys(item[2]))

\* The table stored under the attribute set K, or NoData.
StoredUnder(space, K) ==
    IF \E i \in 1..Len(space.relations) : Range(space.relations[i][1]) = K
    THEN space.relations[CHOOSE i \in 1..Len(space.relations) :
                             Range(space.relations[i][1]) = K][2]
    ELSE NoData

\* C10: for every pair (R, F) Represent looks up the source table under
\* K = (R \cup F) \cap dimensions, as a set; the pair contributes nothing if
\* no table is stored under K or the table lacks a column of R \cup F, and
\* contributes slice tuples otherwise.
C10_RepresentLookup ==
    call.op = "Represent" =>
        /\ err = "none"
        /\ \A R \in Range(call.region_schemas), F \in Range(call.feature_schemas) :
              LET K == (Range(R) \cup Range(F)) \cap Range(input.dimensions)
                  source == StoredUnder(input, K)
              IN  Contributes(R, F) <=>
                      /\ source # NoData
                      /\ (Range(R) \cup Range(F)) \subseteq Range(source.columns)

\* The table Represent partitions for the pair (R, F): the relation stored
\* under the dimension attributes of R followed by F, provided it has every
\* column of R and F; NoData otherwise.
SourceTable(space, R, F) ==
    LET IsDimension(attr) == attr \in Range(space.dimensions)
        found == get_relation(space, RelationSchema(SelectSeq(R \o F, IsDimension)))
    IN  IF found # NoData /\ Range(R \o F) \subseteq Range(found.columns)
        THEN found ELSE NoData

\* The region of a source row: the canonical tuple of its R values.
RegionOfRow(df, row, R) ==
    create_relation_tuple([j \in 1..Len(R) |-> <<R[j], row[ColIndex(df, R[j])]>>])

\* The F-projection of the source rows that lie in the region, in order.
RegionRows(df, region, R, F) ==
    LET InRegion(row) == RegionOfRow(df, row, R) = region
        rows == SelectSeq(df.rows, InRegion)
    IN  [i \in 1..Len(rows) |-> [j \in 1..Len(F) |-> rows[i][ColIndex(df, F[j])]]]

\* C11: for a non-empty region schema R and a feature schema F whose source
\* table is found, the regions of Represent's output over R are exactly the
\* canonical tuples of the distinct R values of the source rows, each once,
\* and the feature table of such a region under F is the F-projection of
\* exactly the source rows with those R values.
C11_RepresentGroupsByRegion ==
    call.op = "Represent" =>
        \A R \in Range(call.region_schemas) \ {<<>>}, F \in Range(call.feature_schemas) :
            LET source == SourceTable(input, R, F)
            IN  source # NoData =>
                  /\ {region \in Regions(result) : DictKeys(region) = R} =
                         {RegionOfRow(source, source.rows[i], R) : i \in 1..Len(source.rows)}
                  /\ Len(result.data) = Cardinality(Regions(result))
                  /\ \A item \in Range(result.data) :
                        DictKeys(item[1]) = R =>
                            /\ SortedByAttribute(item[1])
                            /\ DictGet(item[2], F) =
                                   DataFrame(F, RegionRows(source, item[1], R, F))

\* C11 witness: the (Browser, Device) relation was partitioned by Browser on
\* the feature schema {Cost, Device}, and one Browser region received the
\* two source rows of that browser.
C11_Witness ==
    /\ call.op = "Represent"
    /\ err = "none"
    /\ call.feature_schemas = <<DeviceCostSchema>>
    /\ \E item \in Range(result.data) :
          /\ DictKeys(item[1]) = BrowserSchema
          /\ Len(DictGet(item[2], DeviceCostSchema).rows) = 2

\* The F-projection of a whole table.
WholeProjection(df, F) ==
    DataFrame(F, [i \in 1..Len(df.rows) |-> [j \in 1..Len(F) |-> df.rows[i][ColIndex(df, F[j])]]])

\* C12: when Represent's region schemas include the empty schema and the
\* source table for (empty schema, F) is found, the output has a slice tuple
\* under the empty region whose feature table under F is the F-projection of
\* the whole source table.
C12_RepresentEmptyRegion ==
    (call.op = "Represent" /\ EmptySchema \in Range(call.region_schemas)) =>
        \A F \in Range(call.feature_schemas) :
            LET source == SourceTable(input, EmptySchema, F)
            IN  source # NoData =>
                  /\ empty_region_tuple \in Regions(result)
                  /\ DictGet(DictGet(result.data, empty_region_tuple), F) =
                         WholeProjection(source, F)

\* C12 witness: the empty region received the two rows of the Device
\* relation, projected on (Cost, Device).
C12_Witness ==
    /\ call.op = "Represent"
    /\ EmptySchema \in Range(call.region_schemas)
    /\ call.feature_schemas = <<DeviceCostSchema>>
    /\ empty_region_tuple \in Regions(result)
    /\ Len(DictGet(DictGet(result.data, empty_region_tuple), DeviceCostSchema).rows) = 2

\* C13: Flatten skips the empty region: when the input holds the empty
\* region, the output has no relation made from it, and so none under the
\* empty schema.
C13_FlattenSkipsEmptyRegion ==
    (call.op = "Flatten" /\ empty_region_tuple \in Regions(input)) =>
        /\ err = "none"
        /\ get_relation(result, EmptySchema) = NoData

\* The add_relation calls of the last operator call, in order.
Stores ==
    LET IsStore(entry) == entry[1] = "add_relation"
    IN  SelectSeq(log, IsStore)

Columns(dfs) == UNION {Range(df.columns) : df \in Range(dfs)}

RECURSIVE RowCount(_)
RowCount(dfs) == IF dfs = <<>> THEN 1 ELSE Len(Head(dfs).rows) * RowCount(Tail(dfs))

\* The table is the cross product of the region's key row with the rows of
\* the feature tables: each of its rows joins the key row with one row of
\* every feature table, and every such choice of rows is one of its rows.
IsCrossProduct(table, region, dfs) ==
    LET Joins(row, choice) ==
            /\ \A j \in 1..Len(region) : row[region[j][1]] = region[j][2]
            /\ \A d \in 1..Len(dfs) :
                  \A c \in Range(dfs[d].columns) :
                      row[c] = dfs[d].rows[choice[d]][ColIndex(dfs[d], c)]
        choices == {choice \in [1..Len(dfs) -> 1..RowCount(dfs)] :
                        \A d \in 1..Len(dfs) : choice[d] <= Len(dfs[d].rows)}
    IN  /\ \A row \in RowSet(table) : \E choice \in choices : Joins(row, choice)
        /\ \A choice \in choices : \E row \in RowSet(table) : Joins(row, choice)

\* The feature tables of one region have pairwise no column in common.
ColumnDisjoint(dfs) ==
    \A d, e \in 1..Len(dfs) :
        d # e => Range(dfs[d].columns) \cap Range(dfs[e].columns) = {}

C15_TransformPreservesEmptyRegion ==
    (call.op = "SliceTransform" /\ err = "none" /\ empty_region_tuple \in Regions(input)) =>
        /\ empty_region_tuple \in Regions(result)
        /\ Range(DictGet(result.data, empty_region_tuple)) =
               Range(DictGet(input.data, empty_region_tuple))

\* The transformation of the call whose required schema is the given one.
Matching(feature_schema) ==
    {t \in Range(call.slice_transformations) : t.feature_schema = feature_schema}

\* The last transformation of the call whose required schema is the given
\* one.
LastMatching(feature_schema) ==
    LET ts == call.slice_transformations
        last == CHOOSE i \in 1..Len(ts) :
                    /\ ts[i].feature_schema = feature_schema
                    /\ \A j \in 1..Len(ts) : ts[j].feature_schema = feature_schema => j <= i
    IN  ts[last]

\* The transformation calls of the last operator call, as a set.
TransformationCalls ==
    {log[k] : k \in {i \in 1..Len(log) : log[i][1] = "transformation"}}

\* C16: for every region that survives, SliceTransform applies to each
\* feature table whose schema is a transformation's required schema that
\* transformation (the last listed, if several require it), and stores the result under the schema of the result's
\* columns (the input's entry stays only if the result has the same
\* columns); a feature table that no transformation matches is in the output
\* under its schema, unchanged.
C16_TransformAppliesMatching ==
    (call.op = "SliceTransform" /\ err = "none") =>
        /\ \A item \in Range(input.data) :
              item[1] \in Regions(result) \ {empty_region_tuple} =>
                  Range(DictGet(result.data, item[1])) =
                      {<<RelationSchema(TransformationCall(LastMatching(f[1]), f[2]).columns),
                         TransformationCall(LastMatching(f[1]), f[2])>> :
                          f \in {g \in Range(item[2]) : Matching(g[1]) # {}}}
                      \cup {f \in Range(item[2]) : Matching(f[1]) = {}}
        /\ TransformationCalls =
               {<<"transformation", LastMatching(f[1]).name, item[1], f[1]>> :
                   <<item, f>> \in
                       {x \in Range(input.data)
                                  \X UNION {Range(it[2]) : it \in Range(input.data)} :
                            /\ x[1][1] \in Regions(result) \ {empty_region_tuple}
                            /\ x[2] \in Range(x[1][2])
                            /\ Matching(x[2][1]) # {}}}

\* C16 witness: RatioTransformation turned a region's table on (Clicks, Cost)
\* into one on (Clicks, Cost, Cpc); the output holds it under that schema and
\* holds nothing under {Clicks, Cost}.
C16_Witness ==
    /\ call.op = "SliceTransform"
    /\ err = "none"
    /\ \E item \in Range(input.data) :
          /\ DictHas(item[2], ClicksCostSchema)
          /\ item[1] \in Regions(result)
          /\ ~DictHas(DictGet(result.data, item[1]), ClicksCostSchema)
          /\ DictGet(DictGet(result.data, item[1]), <<"Clicks", "Cost", "Cpc">>).rows =
                 << <<10, 100, 10>> >>

\* Crawl's constructor ran to its end.
CrawlBuilt == call.op = "Crawl" /\ call.frontier = NoFrontier

\* C17: the region schemas Crawl passes to its Represent are the caller's
\* list with the empty schema appended if a transformation requires
\* reference data and the list does not hold it yet, and the caller's list
\* otherwise; the caller's list itself is as it was.
C17_CrawlAddsEmptySchema ==
    CrawlBuilt =>
        LET given == call.args.region_schemas
            passed == call.operator.internal_pipeline.operators[1].region_schemas
            needs == \E t \in Range(call.args.slice_transformations) : t.require_reference_data
        IN  /\ call.operator.internal_pipeline.operators[1].op = "Represent"
            /\ (needs /\ EmptySchema \notin Range(given)) => passed = Append(given, EmptySchema)
            /\ (needs /\ EmptySchema \in Range(given)) => passed = given
            /\ ~needs => passed = given
            /\ call.operator.region_schemas = given

\* C17 witness: a transformation requires reference data, the caller's list
\* lacks the empty schema, and Represent was given the list with it appended.
C17_Witness ==
    /\ CrawlBuilt
    /\ call.args.slice_transformations = <<ReferenceTransformation(CostSchema)>>
    /\ call.args.region_schemas = <<DeviceBrowserSchema>>
    /\ call.operator.internal_pipeline.operators[1].region_schemas =
           <<DeviceBrowserSchema, EmptySchema>>
    /\ call.operator.region_schemas = <<DeviceBrowserSchema>>

\* The operator calls of the last call, in order, each <<"operator",
\* operator, argument>>.
OperatorCalls ==
    LET IsOperatorCall(entry) == entry[1] = "operator"
    IN  SelectSeq(log, IsOperatorCall)

\* The operator list of the pipeline the last call ran: a Pipeline's own,
\* or the internal pipeline of a Crawl.
PipelineRan == call.op = "Pipeline" \/ (CrawlBuilt /\ input.kind = "RelationSpace")

PipelineOperators ==
    IF call.op = "Pipeline" THEN call.operators ELSE call.operator.internal_pipeline.operators

\* C18: a Pipeline calls its operators in list order, each once, the first
\* on the pipeline's input and each later one on what the one before it
\* returned, and returns what the last one returned; when an operator raises,
\* no later operator is called and the pipeline returns nothing.
C18_PipelineRunsInOrder ==
    PipelineRan =>
        LET ops == PipelineOperators
            n == Len(OperatorCalls)
            Returned(k) == Execute(OperatorCalls[k][2], OperatorCalls[k][3])
        IN  /\ n >= 1 /\ n <= Len(ops)
            /\ \A k \in 1..n : OperatorCalls[k][2] = ops[k]
            /\ OperatorCalls[1][3] = input
            /\ \A k \in 1..(n - 1) :
                  /\ Returned(k).err = "none"
                  /\ OperatorCalls[k + 1][3] = Returned(k).value
            /\ IF err = "none"
               THEN n = Len(ops) /\ Returned(n).err = "none" /\ result = Returned(n).value
               ELSE Returned(n).err = err /\ result = NoData

\* C18 witness: the second of four operators raised ValueError; the third
\* and fourth were not called and nothing was returned.
C18_Witness ==
    /\ call.op = "Pipeline"
    /\ Len(call.operators) = 4
    /\ err = "ValueError"
    /\ Len(OperatorCalls) = 2
    /\ OperatorCalls[2][2].op = "SliceTransform"
    /\ result = NoData

\* The operator list of an operand: a pipeline's list, and the operator
\* alone for any other operator.
OperatorList(operand) == IF operand.op = "Pipeline" THEN operand.operators ELSE <<operand>>

\* C19: composition with `|` is associative and is list concatenation: the
\* operator list of (a | b) | c is that of a | (b | c), the lists of a, b
\* and c one after the other, and composing leaves the operands' lists, and
\* that of the inner pipeline, as they were.
C19_CompositionAssociative ==
    call.op = "or" =>
        LET a == call.args[1]
            b == call.args[2]
            c == call.args[3]
        IN  /\ result.left.op = "Pipeline" /\ result.right.op = "Pipeline"
            /\ result.left.operators = result.right.operators
            /\ result.left.operators = OperatorList(a) \o OperatorList(b) \o OperatorList(c)
            /\ result.left_operands = <<a, b, c>>
            /\ result.right_operands = <<a, b, c>>
            /\ result.inner[1] = result.inner[2]
            /\ result.inner[3] = result.inner[4]

\* C19 witness: a pipeline of two operators, an operator and a pipeline of
\* one operator were composed into a pipeline of four operators.
C19_Witness ==
    /\ call.op = "or"
    /\ call.args[1].op = "Pipeline" /\ Len(call.args[1].operators) = 2
    /\ call.args[2].op = "SliceSelect"
    /\ call.args[3].op = "Pipeline" /\ Len(call.args[3].operators) = 1
    /\ Len(result.left.operators) = 4
    /\ result.right.operators = result.left.operators

C21_RelationSpaceInvariant ==
    result.kind = "RelationSpace" =>
        \A i \in 1..Len(result.relations) :
            Range(result.relations[i][1]) =
                DimensionalColumns(result.relations[i][2], result.dimensions)

\* C22: in every SliceRelation that Represent, SliceTransform, SliceSelect
\* or SliceProject returns, any two distinct feature schemas of one region
\* have no column in common.
C22_FeatureSchemasDisjoint ==
    (result.kind = "SliceRelation" /\ err = "none") =>
        \A item \in Range(result.data) :
            \A f1, f2 \in Range(item[2]) :
                f1[1] # f2[1] =>
                    /\ Range(f1[1]) \cap Range(f2[1]) = {}
                    /\ Range(f1[2].columns) \cap Range(f2[2].columns) = {}

\* C23: a schema built from an attribute list with a repeated attribute is
\* either rejected or equal to the schema built from the list without the
\* repetitions.
C23_SchemaIgnoresDuplicates ==
    (call.op = "RelationSchema" /\ err = "none") =>
        LET with_duplicates == call.args[1]
            deduplicated == call.args[2]
        IN  (/\ Range(with_duplicates) = Range(deduplicated)
             /\ Cardinality(Range(deduplicated)) = Len(deduplicated)) =>
                result.a = result.b

\* C24: when two SliceTransform runs over independent inputs are interleaved
\* on one transformation instance that requires reference data, every
\* transformation call of a run sees the reference table of that run's own
\* empty region, and a run that has returned has the outcome it has when it
\* runs alone.
C24_InterleavedRunsIndependent ==
    call.op = "SliceTransform" /\ depth > 0 /\ DOMAIN result = Runs =>
        /\ \A k \in 1..Len(log) :
              log[k][1] = "reference" => log[k][4] = ReferenceOf(input[log[k][2]])
        /\ \A r \in Runs :
              result[r].pc = "done" =>
                  LET alone == SliceTransform_execute(call.operator, input[r])
                  IN  /\ result[r].err = alone.err
                      /\ alone.err = "none" =>
                             result[r].new_slice_relation = alone.value

\* C25: no table held in the output of SliceTransform, SliceSelect or
\* SliceProject is the same object as a table held in the operator's input.
C25_NoAliasing ==
    (call.op \in {"SliceTransform", "SliceSelect", "SliceProject"} /\ err = "none") =>
        AliasedTables(call, input) = {}

\* The schema of a region key.
RegionSchema(region) == RelationSchema(DictKeys(region))

\* The last region of the given schema, in the iteration order of the input.
LastRegion(sr, schema) ==
    LET last == CHOOSE i \in 1..Len(sr.data) :
                    /\ RegionSchema(sr.data[i][1]) = schema
                    /\ \A j \in 1..Len(sr.data) :
                          RegionSchema(sr.data[j][1]) = schema => j <= i
    IN  sr.data[last]

\* C26: Flatten's output holds exactly one relation per distinct region
\* schema of its input, and the relation under a schema is the table of the
\* region of that schema that comes last in the input: every row has that
\* region's key values, and the rows are the cross product of its feature
\* tables.
C26_FlattenKeepsLastRegion ==
    (call.op = "Flatten" /\ err = "none") =>
        /\ StoredKeys(result) = {RegionSchema(region) : region \in Regions(input)}
        /\ Cardinality(StoredKeys(result)) = Len(result.relations)
        /\ \A schema \in StoredKeys(result) :
              LET relation == get_relation(result, schema)
                  last == LastRegion(input, schema)
              IN  /\ \A n \in 1..Len(relation.rows) :
                        \A component \in Range(last[1]) :
                            relation.rows[n][ColIndex(relation, component[1])] = component[2]
                  /\ ColumnDisjoint(DictValues(last[2])) =>
                        /\ IsCrossProduct(relation, last[1], DictValues(last[2]))
                        /\ Len(relation.rows) = RowCount(DictValues(last[2]))

\* C26 witness: the input held the regions Device=Pixel and then
\* Device=iPhone, and the relation Flatten returned under (Device) has the
\* rows of Device=iPhone only.
C26_Witness ==
    /\ call.op = "Flatten"
    /\ err = "none"
    /\ Len(input.data) = 2
    /\ input.data[1][1] = <<<<"Device", "Pixel">>>>
    /\ input.data[2][1] = <<<<"Device", "iPhone">>>>
    /\ Len(result.relations) = 1
    /\ get_relation(result, DeviceSchema).rows # <<>>
    /\ \A n \in 1..Len(get_relation(result, DeviceSchema).rows) :
          get_relation(result, DeviceSchema).rows[n][1] = "iPhone"

\* The transformation calls made on one feature table of one region.
CallsOn(region, feature_schema) ==
    {k \in 1..Len(log) : /\ log[k][1] = "transformation"
                         /\ log[k][3] = region
                         /\ log[k][4] = feature_schema}

\* C27: when several transformations of a SliceTransform require the same
\* feature schema, a feature table of that schema in a surviving region gets
\* exactly one transformation call, from the transformation listed last; the
\* output holds that call's result and the earlier transformations are
\* called on nothing.
C27_LastTransformationWins ==
    (call.op = "SliceTransform" /\ err = "none") =>
        /\ \A item \in Range(input.data) :
              item[1] \in Regions(result) \ {empty_region_tuple} =>
                  \A f \in Range(item[2]) :
                      Matching(f[1]) # {} =>
                          LET last == LastMatching(f[1])
                              transformed_df == TransformationCall(last, f[2])
                          IN  /\ Cardinality(CallsOn(item[1], f[1])) = 1
                              /\ \A k \in CallsOn(item[1], f[1]) : log[k][2] = last.name
                              /\ DictGet(DictGet(result.data, item[1]),
                                         RelationSchema(transformed_df.columns)) = transformed_df
        /\ \A i \in 1..Len(call.slice_transformations) :
              (\E j \in (i + 1)..Len(call.slice_transformations) :
                   call.slice_transformations[j].feature_schema =
                       call.slice_transformations[i].feature_schema
                   /\ call.slice_transformations[j].name # call.slice_transformations[i].name) =>
                  \A k \in 1..Len(log) :
                      log[k][1] = "transformation" =>
                          log[k][2] # call.slice_transformations[i].name

\* C27 witness: CopyTransformation and then RatioTransformation, both on
\* (Clicks, Cost): a region's table got the ratio column, from one call, and
\* CopyTransformation was not called.
C27_Witness ==
    /\ call.op = "SliceTransform"
    /\ err = "none"
    /\ Len(call.slice_transformations) = 2
    /\ call.slice_transformations[1].name = "CopyTransformation"
    /\ call.slice_transformations[2].name = "RatioTransformation"
    /\ \E item \in Range(input.data) :
          /\ item[1] \in Regions(result) \ {empty_region_tuple}
          /\ DictHas(item[2], ClicksCostSchema)
          /\ DictHas(DictGet(result.data, item[1]), <<"Clicks", "Cost", "Cpc">>)
          /\ Cardinality(CallsOn(item[1], ClicksCostSchema)) = 1
    /\ \A k \in 1..Len(log) : log[k][2] # "CopyTransformation"

\* C28: SliceTransform prunes only when both drill_down_regions and
\* parent_region_schemas are given: when one of them is None, every
\* non-empty region of the input is in the output, whatever the other holds.
C28_PruningNeedsBothParameters ==
    (/\ call.op = "SliceTransform"
     /\ err = "none"
     /\ (call.drill_down_regions = NoData \/ call.parent_region_schemas = NoData)) =>
        Regions(result) = Regions(input) \ {empty_region_tuple}

\* C28 witness: parent_region_schemas is given without drill_down_regions,
\* and a region that has no parent among no regions at all is in the output.
C28_Witness ==
    /\ call.op = "SliceTransform"
    /\ err = "none"
    /\ call.drill_down_regions = NoData
    /\ call.parent_region_schemas # NoData
    /\ \E region \in Regions(input) \ {empty_region_tuple} :
          /\ ~PassesDescendantCheck(region, {}, call.parent_region_schemas.elems)
          /\ region \in Regions(result)

\* The regions the predicate was evaluated on during the last call.
PredicateRegions ==
    {log[k][3] : k \in {i \in 1..Len(log) : log[i][1] = "predicate"}}

\* C29: every relation of the space Crawl returns is stored under a schema
\* of the caller's region_schemas list; the predicate is not evaluated on
\* the empty region; and the space holds no relation under the empty schema
\* unless the caller listed the empty schema.
C29_CrawlKeysFromCaller ==
    (CrawlBuilt /\ err = "none") =>
        /\ StoredKeys(result) \subseteq Range(call.args.region_schemas)
        /\ empty_region_tuple \notin PredicateRegions
        /\ EmptySchema \notin Range(call.args.region_schemas) =>
               get_relation(result, EmptySchema) = NoData

\* C29 witness: Crawl appended the empty schema for a transformation that
\* requires reference data, SliceTransform received the empty region, the
\* predicate was evaluated on other regions and the space returned holds the
\* caller's schema only.
C29_Witness ==
    /\ CrawlBuilt
    /\ err = "none"
    /\ call.args.region_schemas = <<DeviceBrowserSchema>>
    /\ call.operator.represent_schemas = <<DeviceBrowserSchema, EmptySchema>>
    /\ \E k \in 1..Len(OperatorCalls) :
          /\ OperatorCalls[k][2].op = "SliceTransform"
          /\ empty_region_tuple \in Regions(OperatorCalls[k][3])
    /\ PredicateRegions # {}
    /\ StoredKeys(result) = {DeviceBrowserSchema}

\* SliceSelect or SliceProject has been applied to its own output: the
\* fourth call of a run, after the cube, Represent and the first application.
AppliedTwice == call.op \in {"SliceSelect", "SliceProject"} /\ depth = 4

\* C30: SliceSelect and SliceProject are idempotent: applied to its own
\* output, the operator returns the same regions with the same feature
\* schemas and tables; and every output keeps the input's dimension schema.
C30_SelectProjectIdempotent ==
    (call.op \in {"SliceSelect", "SliceProject"} /\ err = "none") =>
        /\ result.dimensions = input.dimensions
        /\ AppliedTwice => result.data = input.data

\* C30 witness: SliceProject with a feature allow-list was applied to its
\* own output, which holds a region with a table, and returned it again.
C30_Witness ==
    /\ AppliedTwice
    /\ err = "none"
    /\ call.op = "SliceProject"
    /\ call.feature_schemas # NoData
    /\ result.data # <<>>
    /\ result = input

====
